---- MODULE Spec2Model ----
(***************************************************************************)
(* Verification model of the deadwood-api task-processing core:            *)
(*   - the scheduler loop and task processor (processor/src/processor.py,  *)
(*     process_cog.py, process_thumbnail.py),                              *)
(*   - the file transfer client (processor/src/utils.py),                  *)
(*   - the chunk assembler (api/src/routers/upload.py, api/src/upload/),   *)
(*   - the task creation endpoint (api/src/routers/process.py).            *)
(* Each subsystem has its own specification over its own variables; the    *)
(* variables of the other subsystems stay at their initial values.         *)
(***************************************************************************)
EXTENDS Integers, Sequences, FiniteSets, TLC

(***************************************************************************)
(* Bounds of the model                                                     *)
(***************************************************************************)
MaxTasks == 3
MaxFaults == 1
\* poll cycles counted per invocation of run_processor; the count stays at
\* this value once it is reached
MaxCycles == 2
\* nested calls of run_processor the interpreter allows (its recursion
\* limit, counted in calls of run_processor)
RecursionLimit == 2
\* blocks a transferred file is written in
FileBlocks == 2
\* remote sessions the pull calls of a run may open
MaxSessions == 2
\* chunks of an upload, and bytes of an assembled file
MaxChunks == 3
\* bytes get_file_identifier samples at each end of the file (the code
\* samples 10 MiB of files of many GiB; files here have MaxChunks bytes)
sample_size == 1
MaxInvocations == 3
MaxTimers == 1
MaxRequests == 3

(***************************************************************************)
(* Program constants                                                       *)
(***************************************************************************)
CONCURRENT_TASKS == 2
API_PRIORITY == 2

\* ids of the rows of the datasets table
DatasetIds == {1, 2}

\* priority values of queue rows (lower value = served first)
Priorities == {1, 2, 3}
AllProcs == {1, 2}
Procs == {1}

TaskTypeEnum == {"cog", "thumbnail", "all"}

StatusEnum ==
  {"pending", "uploading", "uploaded", "processing", "cog_processing",
   "thumbnail_processing", "processed", "errored", "audited", "audit_failed"}

\* the value of `task` when get_next_task returned None
NoTask ==
  [id |-> 0, dataset_id |-> 0, priority |-> 0, task_type |-> "none",
   is_processing |-> FALSE]

\* a nullable column or field: None, or a value
None == <<>>

Some(v) == <<v>>

NoError == [kind |-> "none", message |-> "", task_id |-> None, dataset_id |-> None]

\* exceptions.py: the kinds of the taxonomy with the ids they were given
AuthenticationError(message, task_id) ==
  [kind |-> "AuthenticationError", message |-> message,
   task_id |-> Some(task_id), dataset_id |-> None]

DatasetError(message, dataset_id, task_id) ==
  [kind |-> "DatasetError", message |-> message,
   task_id |-> Some(task_id), dataset_id |-> Some(dataset_id)]

ProcessingError(message, task_id, dataset_id) ==
  [kind |-> "ProcessingError", message |-> message,
   task_id |-> Some(task_id), dataset_id |-> Some(dataset_id)]

\* ProcessorError(msg, task_type=..., task_id=...): __init__ of the base
\* class has no parameter task_type, so that the call raises a TypeError
TypeError ==
  [kind |-> "TypeError", message |-> "unexpected keyword argument",
   task_id |-> None, dataset_id |-> None]

VARIABLES
  \* ---- metadata store ----
  queue,           \* rows of the queue table
  nextId,          \* next serial id of the queue table
  status,          \* status column of the datasets table, per dataset id
  cogs,            \* number of rows of the cogs table, per dataset id
  thumbnails,      \* number of rows of the thumbnails table, per dataset id
  storage,         \* derived files on the storage server, per dataset id
  \* ---- scheduler process (background_process / process_task) ----
  pc,              \* position of each scheduler process
  num_of_running,  \* local of background_process
  queued_tasks,    \* local of background_process
  task,            \* local of background_process / argument of process_task
  is_uploaded,     \* local of background_process
  processing_path, \* whether the directory settings.processing_path exists
  cycles,          \* poll cycles the running invocation of run_processor started
  depth,           \* nested calls of run_processor below the first one
  \* ---- bookkeeping of the run ----
  faults,          \* failures that may still be injected (-1: no limit)
  outcome,         \* how the last poll cycle of each process ended
  completed,       \* handlers that returned normally in the current process_task
  statusRead,      \* dataset status read by is_dataset_uploaded_or_processed
  lastTask,        \* id of the task of the last process_task call of the cycle
  order,           \* rows deleted by process_task, in order of deletion
  raised,          \* the exception that last left process_task, per process
  initRows,        \* number of rows the queue table held initially
  \* ---- file transfer client: push_file_to_storage_server ----
  DEV_MODE,        \* settings.DEV_MODE
  remote,          \* files on the storage server, per remote path
  pushPc,          \* position of each push call
  pushArg,         \* arguments of the push call in progress
  pushResult,      \* how the last push call ended
  \* ---- file transfer client: pull_file_from_storage_server ----
  archiveRemote,   \* version of the source file on the storage server
  localFs,         \* files in the local processing directory
  pullPc,          \* position of the pull call
  pullArg,         \* local path of the pull call in progress
  pullResult,      \* how the last pull call ended
  sessions,        \* number of SSH sessions opened by pull calls
  pulled,          \* local paths for which a pull call returned normally
  \* ---- chunk assembler: upload_geotiff_chunk ----
  archive,         \* files in settings.archive_path, per file name
  datasets,        \* rows of the datasets table written by the upload
  nextUuid,        \* next value of uuid.uuid4()
  sent,            \* chunk bodies received in order for each upload id
  inOrder,         \* whether the chunks of the upload came as 0, 1, 2, ...
  target,          \* file name the last final chunk of an upload id produced
  request,         \* chunk_index and chunks_total of the last upload request
  response,        \* the answer to that request
  \* ---- API: PUT /datasets/{dataset_id}/process ----
  apiRequest,      \* the last request to the endpoint and what met it
  apiResponse,     \* the answer to that request
  \* ---- convert handler: process_geotiff ----
  gPc,                 \* position of process_geotiff
  gTask,               \* the task process_geotiff was called with
  gRuns,               \* calls of process_geotiff so far
  token_fresh,         \* token was issued after the last external tool call
  storage_server_path, \* archive file on the storage server, per dataset id
  input_path,          \* the pulled file in the scratch directory
  converted_path,      \* the conversion artifact in the scratch directory
  geotiff_info,        \* number of rows of the geotiff info table, per dataset
  raisedError,         \* the exception that left process_geotiff
  \* ---- status manager called on rows of the datasets table ----
  dataset_rows,    \* rows of the datasets table, with all their columns
  statusCall,      \* the last call of update_status and what it met
  \* ---- derive-segmentation handler ----
  segPc,           \* position inside process_deadwood_segmentation
  segTask,         \* dataset_id of the task it runs
  segSubmit,       \* what became of the submission of the label record
  segResult,       \* how process_deadwood_segmentation was left
  \* ---- legacy scheduler (src/src/queue.py) ----
  lQueue,          \* rows of the queue table
  lNextId,         \* id the next inserted row gets
  lRun,            \* the running invocations of background_process: where
                   \* each is, the num_of_running it read and its task
  lTimers,         \* Timer threads started and not yet run
  lHides,          \* whether the position view leaves out rows in progress
  \* ---- the pulls of one task ----
  aPc,             \* stage of the task that process_task runs
  aType,           \* its task type
  aFile,           \* file_name of its dataset
  aBase,           \* remote sessions opened before the task started
  \* ---- rate limiting of the download application ----
  CONNECTED_IPS,   \* the keys of the dictionary CONNECTED_IPS
  dReq             \* the requests to the download application

storeVars == <<queue, nextId, status, cogs, thumbnails, storage>>
localVars == <<pc, num_of_running, queued_tasks, task, is_uploaded>>
pushVars == <<DEV_MODE, remote, pushPc, pushArg, pushResult>>
pullVars == <<archiveRemote, localFs, pullPc, pullArg, pullResult, sessions, pulled>>
uploadVars == <<archive, datasets, nextUuid, sent, inOrder, target, request, response>>
apiVars == <<apiRequest, apiResponse>>
convVars ==
  <<gPc, gTask, gRuns, token_fresh, storage_server_path, input_path,
    converted_path, geotiff_info, raisedError>>

statusVars == <<dataset_rows, statusCall>>
segVars == <<segPc, segTask, segSubmit, segResult>>
legacyVars == <<lQueue, lNextId, lRun, lTimers, lHides>>
stageVars == <<aPc, aType, aFile, aBase>>
downloadVars == <<CONNECTED_IPS, dReq>>
lateVars == <<statusVars, segVars, legacyVars, stageVars, downloadVars>>

\* what every step of the scheduler leaves alone
schedRest == <<initRows, pushVars, pullVars, uploadVars, apiVars, convVars, lateVars>>

schedFrame == <<schedRest, processing_path, cycles, depth>>

histVars == <<faults, outcome, completed, statusRead, lastTask, order, raised, schedFrame>>
schedVars == <<storeVars, localVars, histVars>>

vars == <<schedVars>>

(***************************************************************************)
(* Metadata store: queue table and queue position view                     *)
(***************************************************************************)
\* the position view orders the queue rows by priority, then by id
Before(r, s) ==
  \/ r.priority < s.priority
  \/ r.priority = s.priority /\ r.id < s.id

RECURSIVE SortRows(_)
SortRows(S) ==
  IF S = {} THEN <<>>
  ELSE LET m == CHOOSE r \in S : \A s \in S \ {r} : Before(r, s)
       IN <<m>> \o SortRows(S \ {m})

QueuePositions(q) == SortRows(q)

current_running_tasks(q) == Cardinality({r \in q : r.is_processing})

queue_length(q) == Len(QueuePositions(q))

get_next_task_last(q) ==
  IF QueuePositions(q) = <<>> THEN NoTask
  ELSE QueuePositions(q)[Len(QueuePositions(q))]

get_next_task(q) ==
  IF QueuePositions(q) = <<>> THEN NoTask ELSE QueuePositions(q)[1]

is_dataset_uploaded_or_processed_noterrored(s) == s # "errored"

is_dataset_uploaded_or_processed(s) == s \in {"uploaded", "processed"}

SpotAvailable_inclusive(n) == n <= CONCURRENT_TASKS

SpotAvailable(n) == n < CONCURRENT_TASKS

RunsCog(tt) == tt \in {"cog", "all"}

RunsThumbnail(tt) == tt \in {"thumbnail", "all"}

\* rows present in the queue table before the model starts: serial ids,
\* any priority, possibly marked as processing by another worker
InitRowDataset(i) == ((i - 1) % Cardinality(DatasetIds)) + 1

\* the workload: the task types requested cycle through cog, thumbnail, all
RowType(i) ==
  IF i % 3 = 1 THEN "cog" ELSE IF i % 3 = 2 THEN "thumbnail" ELSE "all"

InitRow(i, prio, flag) ==
  [id |-> i, dataset_id |-> InitRowDataset(i), priority |-> prio,
   task_type |-> RowType(i), is_processing |-> flag]

\* a waiting row has any priority; a row marked as processing by another
\* worker has the default priority of TaskPayload
InitRowKinds == (Priorities \X {FALSE}) \cup {<<API_PRIORITY, TRUE>>}

InitTables ==
  UNION { { {InitRow(i, f[i][1], f[i][2]) : i \in 1..k} :
            f \in [1..k -> InitRowKinds] } : k \in 0..MaxTasks }

InitStatuses == {"pending", "uploaded"}

InitSchedBase ==
  /\ queue \in InitTables
  /\ nextId = Cardinality(queue) + 1
  /\ initRows = Cardinality(queue)
  /\ status \in [DatasetIds -> InitStatuses]
  /\ cogs = [d \in DatasetIds |-> 0]
  /\ thumbnails = [d \in DatasetIds |-> 0]
  /\ storage = [d \in DatasetIds |-> {}]
  /\ pc = [p \in AllProcs |-> "idle"]
  /\ num_of_running = [p \in AllProcs |-> 0]
  /\ queued_tasks = [p \in AllProcs |-> 0]
  /\ processing_path = [p \in AllProcs |-> FALSE]
  /\ cycles = [p \in AllProcs |-> 0]
  /\ depth = [p \in AllProcs |-> 0]
  /\ task = [p \in AllProcs |-> NoTask]
  /\ is_uploaded = [p \in AllProcs |-> FALSE]
  /\ outcome = [p \in AllProcs |-> "none"]
  /\ completed = [p \in AllProcs |-> {}]
  /\ statusRead = [p \in AllProcs |-> "none"]
  /\ lastTask = [p \in AllProcs |-> 0]
  /\ order = <<>>
  /\ raised = [p \in AllProcs |-> NoError]

InitSched == InitSchedBase /\ faults = -1

(***************************************************************************)
(* API: create_processing_task                                             *)
(***************************************************************************)
\* the row the insert of a TaskPayload adds to the queue table
TaskPayload(id, d, tt) ==
  [id |-> id, dataset_id |-> d, priority |-> API_PRIORITY,
   task_type |-> tt, is_processing |-> FALSE]

\* a request of an authenticated user for a dataset that exists, as far
\* as the queue table is concerned
create_processing_task(d, tt) ==
  /\ nextId <= MaxTasks
  /\ queue' = queue \cup {TaskPayload(nextId, d, tt)}
  /\ nextId' = nextId + 1
  /\ UNCHANGED <<status, cogs, thumbnails, storage, localVars, histVars>>

(***************************************************************************)
(* Scheduler loop: background_process                                      *)
(***************************************************************************)
Goto(p, from, to) == pc[p] = from /\ pc' = [pc EXCEPT ![p] = to]

\* an operation fails (exception from the store, the remote server or a
\* tool); the budget of failures is limited only where faults >= 0
Fault == faults # 0 /\ faults' = IF faults < 0 THEN faults ELSE faults - 1

\* run_processor calls background_process again and again in DEV_MODE
\* (also after a cycle that raised), and once otherwise
Loops_always(dev) == TRUE

Loops(dev) == dev

\* the ways a poll cycle ends with an exception leaving background_process
RaisedOutcomes == {"cycle_raised", "task_raised", "handler_raised"}

\* except Exception: ... run_processor(): in DEV_MODE a cycle that raised is
\* followed by a nested call of run_processor, which never returns
Restarted(dev, how, d) ==
  IF dev /\ how \in RaisedOutcomes THEN d + 1 ELSE d

\* a poll cycle ends: background_process returns (or raises) and its
\* locals are gone; only how the cycle ended is remembered. Where
\* run_processor does not loop, the invocation ends with the cycle; where
\* the nested call exceeds the recursion limit, the RecursionError leaves
\* every call of run_processor and the process ends
EndCycle(p, how) ==
  /\ depth' = [depth EXCEPT ![p] = Restarted(DEV_MODE, how, @)]
  /\ pc' = [pc EXCEPT ![p] =
             IF depth'[p] >= RecursionLimit THEN "stopped" ELSE "idle"]
  /\ cycles' = [cycles EXCEPT ![p] = IF Loops(DEV_MODE) THEN @ ELSE 0]
  /\ outcome' = [outcome EXCEPT ![p] = how]
  /\ num_of_running' = [num_of_running EXCEPT ![p] = 0]
  /\ queued_tasks' = [queued_tasks EXCEPT ![p] = 0]
  /\ task' = [task EXCEPT ![p] = NoTask]
  /\ is_uploaded' = [is_uploaded EXCEPT ![p] = FALSE]
  /\ statusRead' = [statusRead EXCEPT ![p] = "none"]
  /\ completed' = [completed EXCEPT ![p] = {}]

Continue(p, to) ==
  /\ pc' = [pc EXCEPT ![p] = to]
  /\ UNCHANGED <<outcome, num_of_running, queued_tasks, task, is_uploaded,
                 statusRead, completed, cycles, depth>>

\* login + verify_token: a new poll cycle starts, the first of a new
\* invocation of run_processor or the next of a looping one
BP_Login(p) ==
  /\ Goto(p, "idle", "bp_count")
  /\ cycles[p] = 0 \/ Loops(DEV_MODE)
  /\ cycles' = [cycles EXCEPT ![p] = IF @ < MaxCycles THEN @ + 1 ELSE @]
  /\ outcome' = [outcome EXCEPT ![p] = "running"]
  /\ lastTask' = [lastTask EXCEPT ![p] = 0]
  /\ raised' = [raised EXCEPT ![p] = NoError]
  /\ UNCHANGED <<storeVars, num_of_running, queued_tasks, task, is_uploaded,
                 faults, completed, statusRead, order, schedRest, processing_path,
                 depth>>

\* verify_token returned no user, or a store read of the cycle failed
BP_Raise(p) ==
  /\ pc[p] \in {"bp_count", "bp_length", "bp_fetch", "bp_eligible"}
  /\ Fault
  /\ EndCycle(p, "cycle_raised")
  /\ UNCHANGED <<storeVars, lastTask, order, raised, schedRest, processing_path>>

BP_Count(p) ==
  /\ Goto(p, "bp_count", "bp_length")
  /\ num_of_running' = [num_of_running EXCEPT ![p] = current_running_tasks(queue)]
  /\ UNCHANGED <<storeVars, queued_tasks, task, is_uploaded, histVars>>

\* queue_length, then the two tests on queued_tasks and num_of_running
BP_Length(p) ==
  /\ pc[p] = "bp_length"
  /\ IF queue_length(queue) = 0
       THEN EndCycle(p, "empty")
       ELSE IF SpotAvailable(num_of_running[p])
         THEN /\ pc' = [pc EXCEPT ![p] = "bp_fetch"]
              /\ queued_tasks' = [queued_tasks EXCEPT ![p] = queue_length(queue)]
              /\ UNCHANGED <<outcome, num_of_running, task, is_uploaded,
                             statusRead, completed, cycles, depth>>
         ELSE EndCycle(p, "no_spot")
  /\ UNCHANGED <<storeVars, faults, lastTask, order, raised, schedRest, processing_path>>

BP_Fetch(p) ==
  /\ Goto(p, "bp_fetch", "bp_eligible")
  /\ task' = [task EXCEPT ![p] = get_next_task(queue)]
  /\ UNCHANGED <<storeVars, num_of_running, queued_tasks, is_uploaded, histVars>>

\* is_dataset_uploaded_or_processed(task, token); with task = None the
\* attribute access task.dataset_id raises
BP_Eligible(p) ==
  /\ pc[p] = "bp_eligible"
  /\ IF task[p] = NoTask
       THEN EndCycle(p, "cycle_raised")
       ELSE /\ pc' = [pc EXCEPT ![p] = "bp_decide"]
            /\ statusRead' = [statusRead EXCEPT ![p] = status[task[p].dataset_id]]
            /\ is_uploaded' = [is_uploaded EXCEPT ![p] =
                 is_dataset_uploaded_or_processed(status[task[p].dataset_id])]
            /\ UNCHANGED <<outcome, num_of_running, queued_tasks, task, completed,
                           cycles, depth>>
  /\ UNCHANGED <<storeVars, faults, lastTask, order, raised, schedRest, processing_path>>

\* the queue table after a task was handed to process_task, had the row
\* been marked as processing at that point
Dispatched_marked(q, id) ==
  {IF r.id = id THEN [r EXCEPT !.is_processing = TRUE] ELSE r : r \in q}

\* the queue table after a task was handed to process_task: the call is
\* made without any write to the row
Dispatched(q, id) == q

\* the test deciding the dispatch, had it looked at the task alone
ShouldStart_any(t, uploaded) == t # NoTask

\* if task is not None and is_uploaded
ShouldStart(t, uploaded) == t # NoTask /\ uploaded

\* if task is not None and is_uploaded: process_task(task) else: log
BP_Decide(p) ==
  /\ pc[p] = "bp_decide"
  /\ IF ShouldStart(task[p], is_uploaded[p])
       THEN /\ Continue(p, "pt_verify")
            /\ lastTask' = [lastTask EXCEPT ![p] = task[p].id]
            /\ queue' = Dispatched(queue, task[p].id)
       ELSE /\ EndCycle(p, "not_uploaded")
            /\ UNCHANGED <<lastTask, queue>>
  /\ UNCHANGED <<nextId, status, cogs, thumbnails, storage, faults, order, raised, schedRest,
                 processing_path>>

(***************************************************************************)
(* Status manager: update_status                                           *)
(***************************************************************************)
\* update only the status field of the dataset; a failed write is logged
\* and swallowed, so the caller continues with the status unchanged
update_status(d, s) ==
  \/ status' = [status EXCEPT ![d] = s] /\ UNCHANGED faults
  \/ Fault /\ UNCHANGED status

(***************************************************************************)
(* Task processor: process_task, process_cog, process_thumbnail            *)
(***************************************************************************)
\* steps of process_task and of the handlers that can raise
PT_Steps ==
  {"pt_verify", "pt_load", "pt_delete"}

COG_Steps ==
  {"cog_login", "cog_load", "cog_status", "cog_pull", "cog_calc", "cog_push",
   "cog_relogin", "cog_upsert", "cog_final"}

THUMB_Steps ==
  {"thumb_login", "thumb_load", "thumb_status", "thumb_pull", "thumb_calc",
   "thumb_push", "thumb_relogin", "thumb_upsert", "thumb_final"}

RaisingSteps ==
  (PT_Steps \cup COG_Steps \cup THUMB_Steps)
    \ {"cog_status", "cog_final", "thumb_status", "thumb_final"}

QueueAfterRaise_delete(q, t) == {r \in q : r.id # t}

\* the queue table after process_task caught an exception: the except and
\* finally blocks do not touch the queue
QueueAfterRaise(q, t) == q

\* the storage server after process_task caught an exception, had the
\* except block removed what the task had pushed
StorageAfterRaise_rollback(files, d) == [files EXCEPT ![d] = {}]

\* the except and finally blocks remove nothing from the storage server
StorageAfterRaise(files, d) == files

\* the handler to run after the dataset was loaded / after process_cog
AfterLoad(tt) ==
  IF RunsCog(tt) THEN "cog_login"
  ELSE IF RunsThumbnail(tt) THEN "thumb_login" ELSE "pt_delete"

AfterCog(tt) == IF RunsThumbnail(tt) THEN "thumb_login" ELSE "pt_delete"

\* the finally clause of process_task: outside DEV_MODE
\* shutil.rmtree(settings.processing_path) removes the directory (which the
\* property creates first when nothing had asked for it before)
AfterFinally_kept(dev, exists) == exists

AfterFinally(dev, exists) == IF ~dev THEN FALSE ELSE exists

\* the exception a failing step of process_cog or process_thumbnail leaves
\* the handler with: an AuthenticationError from the token checks (the one
\* of the refresh in process_thumbnail is caught again and becomes a
\* DatasetError), a DatasetError from the reads and writes of the metadata
\* store, a ProcessingError from pull, tool and push
HandlerError(step, t) ==
  IF step \in {"cog_login", "cog_relogin", "thumb_login"}
    THEN AuthenticationError("Invalid processor token", t.id)
  ELSE IF step \in {"cog_load", "cog_upsert", "thumb_load", "thumb_relogin",
                    "thumb_upsert"}
    THEN DatasetError("Failed", t.dataset_id, t.id)
  ELSE ProcessingError("Failed", t.id, t.dataset_id)

\* except Exception as e: raise ProcessingError(str(e), task_type=...,
\* task_id=task.id, dataset_id=task.dataset_id)
Wrapped(e, t) == ProcessingError(e.message, t.id, t.dataset_id)

\* the exception that leaves process_task when the step raises
Raises(step, t) ==
  IF step = "pt_verify" THEN AuthenticationError("Invalid token", t.id)
  ELSE IF step = "pt_load"
    THEN DatasetError("Failed to fetch dataset", t.dataset_id, t.id)
  ELSE IF step = "pt_delete" THEN TypeError
  ELSE Wrapped(HandlerError(step, t), t)

\* a step of process_task or of a handler raises; process_task logs,
\* re-raises, and the poll cycle ends with the exception
PT_Raise(p) ==
  /\ pc[p] \in RaisingSteps
  /\ Fault
  /\ queue' = QueueAfterRaise(queue, task[p].id)
  /\ storage' = StorageAfterRaise(storage, task[p].dataset_id)
  /\ processing_path' =
       [processing_path EXCEPT ![p] = AfterFinally(DEV_MODE, @)]
  /\ EndCycle(p, IF pc[p] \in PT_Steps THEN "task_raised" ELSE "handler_raised")
  /\ raised' = [raised EXCEPT ![p] = Raises(pc[p], task[p])]
  /\ UNCHANGED <<nextId, status, cogs, thumbnails, lastTask, order, schedRest>>

\* everything but the position of the process stays as it is
OnlyPc ==
  UNCHANGED <<storeVars, num_of_running, queued_tasks, task, is_uploaded, histVars>>

PT_Verify(p) ==
  /\ Goto(p, "pt_verify", "pt_load")
  /\ OnlyPc

\* the dataset is loaded; the first handler is called with
\* settings.processing_path, which creates the directory
PT_Load(p) ==
  /\ Goto(p, "pt_load", AfterLoad(task[p].task_type))
  /\ processing_path' = [processing_path EXCEPT ![p] = TRUE]
  /\ UNCHANGED <<storeVars, num_of_running, queued_tasks, task, is_uploaded,
                 faults, outcome, completed, statusRead, lastTask, order, raised,
                 schedRest, cycles, depth>>

COG_Login(p) ==
  /\ Goto(p, "cog_login", "cog_load")
  /\ OnlyPc

COG_Load(p) ==
  /\ Goto(p, "cog_load", "cog_status")
  /\ OnlyPc

COG_StatusProcessing(p) ==
  /\ Goto(p, "cog_status", "cog_pull")
  /\ update_status(task[p].dataset_id, "cog_processing")
  /\ UNCHANGED <<queue, nextId, cogs, thumbnails, storage, num_of_running, queued_tasks,
                 task, is_uploaded, outcome, completed, statusRead,
                 lastTask, order, raised, schedFrame>>

COG_Pull(p) ==
  /\ Goto(p, "cog_pull", "cog_calc")
  /\ OnlyPc

COG_Calc(p) ==
  /\ Goto(p, "cog_calc", "cog_push")
  /\ OnlyPc

\* the storage server after push_file_to_storage_server put a derived file
\* of that kind there, had the push been left out
Pushed_skipped(files, d, kind) == files

\* push_file_to_storage_server(output_path, remote path of the product)
Pushed(files, d, kind) == [files EXCEPT ![d] = @ \cup {kind}]

COG_Push(p) ==
  /\ Goto(p, "cog_push", "cog_relogin")
  /\ storage' = Pushed(storage, task[p].dataset_id, "cog")
  /\ UNCHANGED <<queue, nextId, status, cogs, thumbnails, num_of_running,
                 queued_tasks, task, is_uploaded, histVars>>

COG_Relogin(p) ==
  /\ Goto(p, "cog_relogin", "cog_upsert")
  /\ OnlyPc

\* table.insert(row): one more row with that dataset id
upsert_insert(table, dataset_id) == [table EXCEPT ![dataset_id] = @ + 1]

\* table.upsert(row): dataset_id is the key of the cogs table and the
\* on_conflict column of the thumbnails table, so that the row replaces the
\* row with that dataset id or is added when there is none
upsert(table, dataset_id) == [table EXCEPT ![dataset_id] = 1]

COG_Upsert(p) ==
  /\ Goto(p, "cog_upsert", "cog_final")
  /\ cogs' = upsert(cogs, task[p].dataset_id)
  /\ UNCHANGED <<queue, nextId, status, thumbnails, storage, num_of_running, queued_tasks,
                 task, is_uploaded, histVars>>

COG_StatusProcessed(p) ==
  /\ pc[p] = "cog_final"
  /\ pc' = [pc EXCEPT ![p] = AfterCog(task[p].task_type)]
  /\ update_status(task[p].dataset_id, "processed")
  /\ completed' = [completed EXCEPT ![p] = @ \cup {"cog"}]
  /\ UNCHANGED <<queue, nextId, cogs, thumbnails, storage, num_of_running, queued_tasks,
                 task, is_uploaded, outcome, statusRead, lastTask, order, raised, schedFrame>>

THUMB_Login(p) ==
  /\ Goto(p, "thumb_login", "thumb_load")
  /\ OnlyPc

THUMB_Load(p) ==
  /\ Goto(p, "thumb_load", "thumb_status")
  /\ OnlyPc

THUMB_StatusProcessing(p) ==
  /\ Goto(p, "thumb_status", "thumb_pull")
  /\ update_status(task[p].dataset_id, "thumbnail_processing")
  /\ UNCHANGED <<queue, nextId, cogs, thumbnails, storage, num_of_running, queued_tasks,
                 task, is_uploaded, outcome, completed, statusRead,
                 lastTask, order, raised, schedFrame>>

THUMB_Pull(p) ==
  /\ Goto(p, "thumb_pull", "thumb_calc")
  /\ OnlyPc

THUMB_Calc(p) ==
  /\ Goto(p, "thumb_calc", "thumb_push")
  /\ OnlyPc

THUMB_Push(p) ==
  /\ Goto(p, "thumb_push", "thumb_relogin")
  /\ storage' = Pushed(storage, task[p].dataset_id, "thumbnail")
  /\ UNCHANGED <<queue, nextId, status, cogs, thumbnails, num_of_running,
                 queued_tasks, task, is_uploaded, histVars>>

THUMB_Relogin(p) ==
  /\ Goto(p, "thumb_relogin", "thumb_upsert")
  /\ OnlyPc

THUMB_Upsert(p) ==
  /\ Goto(p, "thumb_upsert", "thumb_final")
  /\ thumbnails' = upsert(thumbnails, task[p].dataset_id)
  /\ UNCHANGED <<queue, nextId, status, cogs, storage, num_of_running,
                 queued_tasks, task, is_uploaded, histVars>>

THUMB_StatusProcessed(p) ==
  /\ Goto(p, "thumb_final", "pt_delete")
  /\ update_status(task[p].dataset_id, "processed")
  /\ completed' = [completed EXCEPT ![p] = @ \cup {"thumbnail"}]
  /\ UNCHANGED <<queue, nextId, cogs, thumbnails, storage, num_of_running, queued_tasks,
                 task, is_uploaded, outcome, statusRead, lastTask, order, raised, schedFrame>>

\* delete the task row after successful processing; process_task returns
PT_Delete(p) ==
  /\ pc[p] = "pt_delete"
  /\ queue' = {r \in queue : r.id # task[p].id}
  /\ processing_path' =
       [processing_path EXCEPT ![p] = AfterFinally(DEV_MODE, @)]
  /\ EndCycle(p, "processed")
  /\ order' = IF \E r \in queue : r.id = task[p].id
                THEN Append(order, task[p]) ELSE order
  /\ UNCHANGED <<nextId, status, cogs, thumbnails, storage, faults, lastTask,
                 raised, schedRest>>

(***************************************************************************)
(* File transfer client: push_file_to_storage_server                       *)
(***************************************************************************)
schedOwn ==
  <<storeVars, localVars, faults, outcome, completed, statusRead, lastTask,
    order, raised, initRows, processing_path, cycles, depth>>

pushFrame == <<schedOwn, pullVars, uploadVars, apiVars, convVars, lateVars>>

\* final remote paths a push may target, and the local files it may send
FinalPaths == {"cogs/1_cog.tif", "thumbnails/1.jpg"}

LocalFiles == {1, 2}

\* a remote or local file: which content it carries and how many of its
\* FileBlocks blocks have been written; Absent is a path without a file
Absent == [file |-> 0, written |-> 0]

WholeFile(v) == [file |-> v, written |-> FileBlocks]

IsWhole(c) == c # Absent /\ c.written = FileBlocks

temp_remote_path_final(r) == r

temp_remote_path(r) == r \o ".tmp"

RemotePaths == FinalPaths \cup {temp_remote_path(r) : r \in FinalPaths}

NoPush == [local_file_path |-> 0, remote_file_path |-> ""]

PushQuiet ==
  /\ DEV_MODE = FALSE
  /\ remote = [r \in RemotePaths |-> Absent]
  /\ pushPc = [p \in AllProcs |-> "idle"]
  /\ pushArg = [p \in AllProcs |-> NoPush]
  /\ pushResult = [p \in AllProcs |-> "none"]

\* the final paths are empty or hold a complete file of an earlier push
InitPush ==
  /\ DEV_MODE \in BOOLEAN
  /\ remote \in {f \in [RemotePaths -> {Absent} \cup {WholeFile(v) : v \in LocalFiles}] :
                   \A r \in RemotePaths \ FinalPaths : f[r] = Absent}
  /\ pushPc = [p \in AllProcs |-> "idle"]
  /\ pushArg = [p \in AllProcs |-> NoPush]
  /\ pushResult = [p \in AllProcs |-> "none"]

PushReturn(p, how) ==
  /\ pushPc' = [pushPc EXCEPT ![p] = "idle"]
  /\ pushArg' = [pushArg EXCEPT ![p] = NoPush]
  /\ pushResult' = [pushResult EXCEPT ![p] = how]

PushGoto(p, from, to) ==
  /\ pushPc[p] = from
  /\ pushPc' = [pushPc EXCEPT ![p] = to]
  /\ UNCHANGED <<pushArg, pushResult>>

\* the call: in dev mode the push is skipped
PushCall(p, v, r) ==
  /\ pushPc[p] = "idle"
  /\ IF DEV_MODE
       THEN PushReturn(p, "skipped")
       ELSE /\ pushPc' = [pushPc EXCEPT ![p] = "connect"]
            /\ pushArg' = [pushArg EXCEPT ![p] =
                 [local_file_path |-> v, remote_file_path |-> r]]
            /\ pushResult' = [pushResult EXCEPT ![p] = "running"]
  /\ UNCHANGED <<DEV_MODE, remote, pushFrame>>

\* ssh.connect and open_sftp succeed
PushConnect(p) ==
  /\ PushGoto(p, "connect", "put_open")
  /\ UNCHANGED <<DEV_MODE, remote, pushFrame>>

\* ssh.connect or open_sftp raises, outside the try block
PushConnectFail(p) ==
  /\ pushPc[p] = "connect"
  /\ PushReturn(p, "connect_raised")
  /\ UNCHANGED <<DEV_MODE, remote, pushFrame>>

\* sftp.put opens the temporary remote file for writing
PushPutOpen(p) ==
  /\ PushGoto(p, "put_open", "put_write")
  /\ remote' = [remote EXCEPT ![temp_remote_path(pushArg[p].remote_file_path)] =
                  [file |-> pushArg[p].local_file_path, written |-> 0]]
  /\ UNCHANGED <<DEV_MODE, pushFrame>>

\* sftp.put writes the next block of the local file
PushPutWrite(p) ==
  /\ pushPc[p] = "put_write"
  /\ remote[temp_remote_path(pushArg[p].remote_file_path)] # Absent
  /\ remote[temp_remote_path(pushArg[p].remote_file_path)].written < FileBlocks
  /\ remote' = [remote EXCEPT
                  ![temp_remote_path(pushArg[p].remote_file_path)].written = @ + 1]
  /\ UNCHANGED <<DEV_MODE, pushPc, pushArg, pushResult, pushFrame>>

\* sftp.put has written every block and returns
PushPutDone(p) ==
  /\ PushGoto(p, "put_write", "rename")
  /\ IsWhole(remote[temp_remote_path(pushArg[p].remote_file_path)])
  /\ UNCHANGED <<DEV_MODE, remote, pushFrame>>

\* sftp.put raises before it has written the last block; what it wrote so
\* far stays on the server (a failure after the last block leaves the
\* state of a failed rename)
PushPutFail(p) ==
  /\ pushPc[p] \in {"put_open", "put_write"}
  /\ ~IsWhole(remote[temp_remote_path(pushArg[p].remote_file_path)])
  /\ pushPc' = [pushPc EXCEPT ![p] = "cleanup"]
  /\ UNCHANGED <<DEV_MODE, remote, pushArg, pushResult, pushFrame>>

\* the files of the server after a rename that left the source in place
Renamed_copied(files, from, to) == [files EXCEPT ![to] = files[from]]

\* posix_rename(from, to): the file is at the new path and no longer at
\* the old one
Renamed(files, from, to) ==
  [files EXCEPT ![to] = files[from], ![from] = Absent]

\* sftp.posix_rename moves the temporary file onto the final path in one
\* step of the server
PushRename(p) ==
  /\ pushPc[p] = "rename"
  /\ remote[temp_remote_path(pushArg[p].remote_file_path)] # Absent
  /\ remote' =
       IF temp_remote_path(pushArg[p].remote_file_path) = pushArg[p].remote_file_path
         THEN remote
         ELSE Renamed(remote, temp_remote_path(pushArg[p].remote_file_path),
                      pushArg[p].remote_file_path)
  /\ PushReturn(p, "pushed")
  /\ UNCHANGED <<DEV_MODE, pushFrame>>

\* sftp.posix_rename raises and nothing was renamed
PushRenameFail(p) ==
  /\ pushPc[p] = "rename"
  /\ pushPc' = [pushPc EXCEPT ![p] = "cleanup"]
  /\ UNCHANGED <<DEV_MODE, remote, pushArg, pushResult, pushFrame>>

\* except: sftp.remove(temp_remote_path), an IOError of it is ignored; then
\* the exception is raised again
PushCleanup(p) ==
  /\ pushPc[p] = "cleanup"
  /\ \/ remote' = [remote EXCEPT
                     ![temp_remote_path(pushArg[p].remote_file_path)] = Absent]
     \/ UNCHANGED remote
  /\ PushReturn(p, "raised")
  /\ UNCHANGED <<DEV_MODE, pushFrame>>

\* the process is killed or the connection is lost: the call never
\* returns and the server keeps what it holds
PushInterrupt(p) ==
  /\ pushPc[p] # "idle"
  /\ PushReturn(p, "interrupted")
  /\ UNCHANGED <<DEV_MODE, remote, pushFrame>>

Push(p) ==
  \/ \E v \in LocalFiles, r \in FinalPaths : PushCall(p, v, r)
  \/ PushConnect(p) \/ PushConnectFail(p)
  \/ PushPutOpen(p) \/ PushPutWrite(p) \/ PushPutDone(p) \/ PushPutFail(p)
  \/ PushRename(p) \/ PushRenameFail(p) \/ PushCleanup(p)
  \/ PushInterrupt(p)

(***************************************************************************)
(* File transfer client: pull_file_from_storage_server                     *)
(***************************************************************************)
pullFrame == <<schedOwn, pushVars, uploadVars, apiVars, convVars, lateVars>>

\* the files a pull may fetch; each names one remote path and the local
\* path it is pulled to
PullFiles == {"a.tif", "b.tif"}

NoPull == ""

\* os.path.exists(local_file_path)
AlreadyLocal_never(c) == FALSE

AlreadyLocal(c) == c # Absent

PullQuiet ==
  /\ archiveRemote = [f \in PullFiles |-> 1]
  /\ localFs = [f \in PullFiles |-> Absent]
  /\ pullPc = "idle"
  /\ pullArg = NoPull
  /\ pullResult = "none"
  /\ sessions = 0
  /\ pulled = {}

InitPull ==
  /\ archiveRemote \in [PullFiles -> LocalFiles]
  /\ localFs = [f \in PullFiles |-> Absent]
  /\ pullPc = "idle"
  /\ pullArg = NoPull
  /\ pullResult = "none"
  /\ sessions = 0
  /\ pulled = {}

PullReturn(how) ==
  /\ pullPc' = "idle"
  /\ pullArg' = NoPull
  /\ pullResult' = how

\* the call: return at once if the local path exists
PullCall(f) ==
  /\ pullPc = "idle"
  /\ IF AlreadyLocal(localFs[f])
       THEN /\ PullReturn("exists")
            /\ pulled' = pulled \cup {f}
       ELSE /\ pullPc' = "connect"
            /\ pullArg' = f
            /\ pullResult' = "running"
            /\ UNCHANGED pulled
  /\ UNCHANGED <<archiveRemote, localFs, sessions, pullFrame>>

\* ssh.connect and open_sftp succeed: a remote session is open
PullConnect ==
  /\ pullPc = "connect"
  /\ sessions < MaxSessions
  /\ pullPc' = "get_open"
  /\ sessions' = sessions + 1
  /\ UNCHANGED <<archiveRemote, localFs, pullArg, pullResult, pulled, pullFrame>>

PullConnectFail ==
  /\ pullPc = "connect"
  /\ PullReturn("raised")
  /\ UNCHANGED <<archiveRemote, localFs, sessions, pulled, pullFrame>>

\* mkdir of the parent directory; sftp.get opens the local file
PullGetOpen ==
  /\ pullPc = "get_open"
  /\ pullPc' = "get_write"
  /\ localFs' = [localFs EXCEPT ![pullArg] =
                   [file |-> archiveRemote[pullArg], written |-> 0]]
  /\ UNCHANGED <<archiveRemote, pullArg, pullResult, sessions, pulled, pullFrame>>

\* sftp.get writes the next block
PullGetWrite ==
  /\ pullPc = "get_write"
  /\ localFs[pullArg].written < FileBlocks
  /\ localFs' = [localFs EXCEPT ![pullArg].written = @ + 1]
  /\ UNCHANGED <<archiveRemote, pullPc, pullArg, pullResult, sessions, pulled,
                 pullFrame>>

\* sftp.get returns, the local path exists, the call returns normally
PullGetDone ==
  /\ pullPc = "get_write"
  /\ IsWhole(localFs[pullArg])
  /\ pulled' = pulled \cup {pullArg}
  /\ PullReturn("pulled")
  /\ UNCHANGED <<archiveRemote, localFs, sessions, pullFrame>>

\* sftp.get raises; what it wrote so far stays in the local file
PullGetFail ==
  /\ pullPc \in {"get_open", "get_write"}
  /\ PullReturn("raised")
  /\ UNCHANGED <<archiveRemote, localFs, sessions, pulled, pullFrame>>

\* the file on the storage server is replaced by another one
RemoteChange(f) ==
  /\ \E v \in LocalFiles \ {archiveRemote[f]} :
       archiveRemote' = [archiveRemote EXCEPT ![f] = v]
  /\ UNCHANGED <<localFs, pullPc, pullArg, pullResult, sessions, pulled, pullFrame>>

\* process_task removes the processing directory when it ends
RemoveProcessingPath ==
  /\ pullPc = "idle"
  /\ localFs # [f \in PullFiles |-> Absent]
  /\ localFs' = [f \in PullFiles |-> Absent]
  /\ pulled' = {}
  /\ UNCHANGED <<archiveRemote, pullPc, pullArg, pullResult, sessions, pullFrame>>

Pull ==
  \/ \E f \in PullFiles : PullCall(f)
  \/ PullConnect \/ PullConnectFail
  \/ PullGetOpen \/ PullGetWrite \/ PullGetDone \/ PullGetFail
  \/ \E f \in PullFiles : RemoteChange(f)
  \/ RemoveProcessingPath

(***************************************************************************)
(* Chunk assembler: upload_geotiff_chunk                                   *)
(***************************************************************************)
uploadFrame == <<schedOwn, pushVars, pullVars, apiVars, convVars, lateVars>>

UploadIds == {"u1", "u2"}

\* the values uuid.uuid4() returns, in order
Uuids == <<"f1", "f2">>

Bytes == {0, 1}

\* the body of a chunk
ChunkBodies == {<<b>> : b \in Bytes}

\* a path of the archive directory without a file
NoFile == <<-1>>

NoTarget == ""

upload_file_name(u) == u \o ".tif"

file_name(uid) == uid \o "_ortho.tif"

ArchiveNames ==
  {upload_file_name(u) : u \in UploadIds} \cup
  {file_name(Uuids[i]) : i \in 1..Len(Uuids)}

RECURSIVE Flatten(_)
Flatten(chunks) ==
  IF chunks = <<>> THEN <<>> ELSE Head(chunks) \o Flatten(Tail(chunks))

mode_append(chunk_index) == "ab"

mode(chunk_index) == IF chunk_index = 0 THEN "wb" ELSE "ab"

\* open(path, mode) and write(content): 'wb' truncates or creates the file,
\* 'ab' creates it or appends to it
WriteChunk(file, m, content) ==
  IF m = "wb" \/ file = NoFile THEN content ELSE file \o content

\* hashlib.sha256 of a byte string; distinct inputs give distinct digests
Sha256(bytes) == [sha256_of |-> bytes]

Min(a, b) == IF a < b THEN a ELSE b

\* str(n).encode(): the decimal digits of n as ASCII bytes
RECURSIVE StrEncode(_)
StrEncode(n) ==
  IF n < 10 THEN <<48 + n>> ELSE StrEncode(n \div 10) \o <<48 + (n % 10)>>

\* sha256 over the whole file, as UploadService.compute_sha256 reads it
compute_sha256(file) == Sha256(file)

\* sha256 over the file size, the first sample_size bytes and the last
\* sample_size bytes
get_file_identifier(file) ==
  Sha256(StrEncode(Len(file))
         \o SubSeq(file, 1, Min(sample_size, Len(file)))
         \o SubSeq(file, Len(file) - Min(sample_size, Len(file)) + 1, Len(file)))

\* transform_bounds of the raster; None when it has no usable CRS
get_transformed_bounds(crs) == IF crs THEN Some("bounds") ELSE None

\* shared.models.Dataset(**data): the nullable fields take None
Dataset(data) == data

\* crs: whether the raster the chunks make up has a coordinate reference
\* system
NoRequest == [chunk_index |-> 0, chunks_total |-> 0, crs |-> TRUE]

NoResponse == [status_code |-> 0, kind |-> "none", body |-> None]

\* the status line and body FastAPI makes of what the handler returns
JSONResponse(kind, body) == [status_code |-> 200, kind |-> kind, body |-> body]

\* ... and of an HTTPException the handler raises
HTTPException(status_code) ==
  [status_code |-> status_code, kind |-> "error", body |-> None]

UploadQuiet ==
  /\ archive = [n \in ArchiveNames |-> NoFile]
  /\ datasets = {}
  /\ nextUuid = 1
  /\ sent = [u \in UploadIds |-> <<>>]
  /\ inOrder = [u \in UploadIds |-> FALSE]
  /\ target = [u \in UploadIds |-> NoTarget]
  /\ request = NoRequest
  /\ response = NoResponse

InitUpload == UploadQuiet

\* the client's view of the upload: chunk 0 starts it, chunk k continues
\* it when the chunks 0..k-1 went before
SentAfter(u, chunk_index, content) ==
  IF chunk_index = 0 THEN <<content>>
  ELSE IF inOrder[u] /\ chunk_index = Len(sent[u])
         THEN Append(sent[u], content)
         ELSE <<>>

\* POST /datasets/chunk. A client does not use the upload id of an upload
\* again once its final chunk was renamed, and it sends files of at most
\* MaxChunks bytes. how: the final chunk is processed completely
\* ("done"), rename raises ("rename"), or a step after rename raises
\* ("later"); both failures are answered with status 500
upload_geotiff_chunk(u, chunk_index, chunks_total, content, crs, how) ==
  LET written == WriteChunk(archive[upload_file_name(u)], mode(chunk_index), content)
      final == chunk_index = chunks_total - 1
      renamed == final /\ how # "rename"
      target_name == file_name(Uuids[nextUuid])
      dataset ==
        Dataset([file_name |-> target_name,
                 status |-> "uploaded",
                 file_size |-> Some(Len(written)),
                 sha256 |-> Some(get_file_identifier(written)),
                 bbox |-> get_transformed_bounds(crs)])
  IN
  /\ nextUuid <= Len(Uuids)
  /\ target[u] = NoTarget
  /\ Len(written) <= MaxChunks
  /\ final \/ how = "done"
  /\ archive' =
       IF renamed
         THEN [archive EXCEPT ![upload_file_name(u)] = NoFile,
                              ![target_name] = written]
         ELSE [archive EXCEPT ![upload_file_name(u)] = written]
  /\ nextUuid' = IF final THEN nextUuid + 1 ELSE nextUuid
  /\ datasets' =
       IF final /\ how = "done"
         THEN datasets \cup {dataset}
         ELSE datasets
  /\ sent' = [sent EXCEPT ![u] = SentAfter(u, chunk_index, content)]
  /\ inOrder' = [inOrder EXCEPT ![u] = SentAfter(u, chunk_index, content) # <<>>]
  /\ target' = [target EXCEPT ![u] = IF renamed THEN target_name ELSE @]
  /\ request' = [chunk_index |-> chunk_index, chunks_total |-> chunks_total,
                 crs |-> crs]
  /\ response' =
       IF ~final
         THEN JSONResponse("message",
                [chunk_index |-> chunk_index, chunks_total |-> chunks_total])
         ELSE IF how = "done" THEN JSONResponse("dataset", dataset)
                              ELSE HTTPException(500)
  /\ UNCHANGED uploadFrame

\* the requests of the clients; how the processing of the final chunk ends
\* and whether the raster has a CRS matter for a final chunk only
Upload ==
  \E u \in UploadIds, chunks_total \in 1..MaxChunks, content \in ChunkBodies :
    \E chunk_index \in 0..(chunks_total - 1) :
      \E how \in IF chunk_index = chunks_total - 1
                   THEN {"done", "rename", "later"} ELSE {"done"} :
        \E crs \in IF chunk_index = chunks_total - 1 /\ how = "done"
                     THEN BOOLEAN ELSE {TRUE} :
          upload_geotiff_chunk(u, chunk_index, chunks_total, content, crs, how)

\* UploadService.create_dataset_entry for a file of the caller under a new
\* file name. With manual_upload the hash, the bounds and the size are read
\* from the file, and transform_bounds raises when the raster has no CRS;
\* without it the three fields are None. The call is no request to the
\* upload endpoint
create_dataset_entry(file, manual_upload, crs) ==
  LET sha256 == IF manual_upload THEN Some(compute_sha256(file)) ELSE None
      bounds == IF manual_upload THEN get_transformed_bounds(crs) ELSE None
      size == IF manual_upload THEN Some(Len(file)) ELSE None
      raises == manual_upload /\ ~crs
      dataset ==
        Dataset([file_name |-> file_name(Uuids[nextUuid]),
                 status |-> "uploaded",
                 file_size |-> size,
                 sha256 |-> sha256,
                 bbox |-> bounds])
  IN
  /\ nextUuid <= Len(Uuids)
  /\ nextUuid' = nextUuid + 1
  /\ datasets' = IF raises THEN datasets ELSE datasets \cup {dataset}
  /\ request' = NoRequest
  /\ response' = NoResponse
  /\ UNCHANGED <<archive, sent, inOrder, target, uploadFrame>>

\* the file a manual upload registers
ManualFiles == {<<0, 1>>}

CreateDatasetEntry ==
  \E file \in ManualFiles, manual_upload \in BOOLEAN :
    \E crs \in IF manual_upload THEN BOOLEAN ELSE {TRUE} :
      create_dataset_entry(file, manual_upload, crs)

(***************************************************************************)
(* API: PUT /datasets/{dataset_id}/process and its answer                  *)
(***************************************************************************)
apiFrame ==
  <<status, cogs, thumbnails, storage, localVars, faults, outcome, completed,
    statusRead, lastTask, order, raised, initRows, pushVars, pullVars, uploadVars,
    processing_path, cycles, depth, convVars, lateVars>>

\* a dataset id without a row in the datasets table
MissingDatasetId == 99999

\* how a request can go: every call succeeds, or the dataset select, the
\* queue insert or the position select raises
ApiOutcomes == {"ok", "load", "insert", "position"}

\* the row of the position view with that id: the queue row with its place
\* in the view and the estimated time the view computed
PositionRow(q, id, estimated_time) ==
  LET i == CHOOSE k \in 1..Len(QueuePositions(q)) : QueuePositions(q)[k].id = id
      r == QueuePositions(q)[i]
  IN [id |-> Some(r.id), dataset_id |-> r.dataset_id, priority |-> r.priority,
      task_type |-> r.task_type, is_processing |-> r.is_processing,
      current_position |-> i, estimated_time |-> estimated_time]

\* QueueTask(**data) validates: id is an int and task_type is required
QueueTask(data) == data.id # None /\ "task_type" \in DOMAIN data

\* the body FastAPI makes of an HTTPException the handler returns instead
\* of raising it: a 200 answer with the fields of the exception
ReturnedHTTPException(status_code) ==
  JSONResponse("HTTPException", [status_code |-> status_code])

NoApiRequest ==
  [dataset_id |-> 0, task_type |-> "none", user |-> FALSE, indexed |-> FALSE,
   estimated_time |-> None, how |-> "ok"]

ApiQuiet ==
  /\ apiRequest = NoApiRequest
  /\ apiResponse = NoResponse

\* user: verify_token found the user of the token; indexed: the position
\* view has a row for the new task; estimated_time: the value of that row
put_datasets_process(dataset_id, task_type, user, indexed, estimated_time, how) ==
  LET found == dataset_id \in DatasetIds
      loaded == user /\ how # "load" /\ found
      inserted == loaded /\ how # "insert"
      q == queue \cup {TaskPayload(nextId, dataset_id, task_type)}
      task_data ==
        LET row == PositionRow(q, nextId, estimated_time)
        IN [row EXCEPT !.estimated_time = IF @ = None THEN Some(0) ELSE @]
      fallback ==
        [id |-> None, dataset_id |-> dataset_id, priority |-> API_PRIORITY,
         is_processing |-> FALSE, current_position |-> -1,
         estimated_time |-> Some(0)]
  IN
  /\ nextId <= MaxTasks
  /\ queue' = IF inserted THEN q ELSE queue
  /\ nextId' = IF inserted THEN nextId + 1 ELSE nextId
  /\ apiRequest' =
       [dataset_id |-> dataset_id, task_type |-> task_type, user |-> user,
        indexed |-> indexed, estimated_time |-> estimated_time, how |-> how]
  /\ apiResponse' =
       IF ~user THEN ReturnedHTTPException(401)
       ELSE IF how = "load" THEN ReturnedHTTPException(500)
       ELSE IF ~found THEN ReturnedHTTPException(404)
       ELSE IF how \in {"insert", "position"} THEN ReturnedHTTPException(500)
       ELSE IF indexed
         THEN IF QueueTask(task_data)
                THEN JSONResponse("QueueTask", task_data)
                ELSE ReturnedHTTPException(500)
         ELSE IF QueueTask(fallback)
                THEN JSONResponse("QueueTask", fallback)
                ELSE ReturnedHTTPException(500)
  /\ UNCHANGED apiFrame

\* the requests of the clients; the inputs that cannot matter for a request
\* are fixed (what the position view holds matters only when the row was
\* inserted), and the task types requested cycle as in the workload of
\* the scheduler
NextApi ==
  \E user \in BOOLEAN, task_type \in {RowType(nextId)} :
    \E dataset_id \in IF user THEN DatasetIds \cup {MissingDatasetId}
                               ELSE {MissingDatasetId} :
      \E how \in IF user THEN ApiOutcomes ELSE {"ok"} :
        \E indexed \in IF user /\ how = "ok" /\ dataset_id \in DatasetIds
                         THEN BOOLEAN ELSE {FALSE} :
          \E estimated_time \in IF indexed THEN {None, Some(1)} ELSE {None} :
            put_datasets_process(dataset_id, task_type, user, indexed,
                                 estimated_time, how)

(***************************************************************************)
(* Convert handler: process_geotiff, convert_geotiff, verify_geotiff       *)
(***************************************************************************)
\* what no step of process_geotiff touches
convFrame ==
  <<queue, nextId, cogs, thumbnails, storage, localVars, outcome, completed,
    statusRead, lastTask, order, raised, initRows, processing_path, cycles, depth, pushVars,
    pullVars, uploadVars, apiVars, lateVars>>

\* contents of a raster file: the uploaded original, a sound converted file,
\* a converted file that gdalinfo reports errors for; or no file
FileStates == {"absent", "original", "valid", "broken"}

NoConvTask == [id |-> 0, dataset_id |-> 0]

ConvQuiet ==
  /\ gPc = "idle"
  /\ gTask = NoConvTask
  /\ gRuns = 0
  /\ token_fresh = FALSE
  /\ storage_server_path = [d \in DatasetIds |-> "original"]
  /\ input_path = "absent"
  /\ converted_path = "absent"
  /\ geotiff_info = [d \in DatasetIds |-> 0]
  /\ raisedError = NoError

\* gdalinfo on the file, had its output not been looked at
verify_geotiff_any(file) == TRUE

\* verify_geotiff: gdalinfo runs and its output names no ERROR or FAILURE
verify_geotiff(file) == file = "valid"

\* the finally clause, had it kept the artifact
Unlinked_kept(file) == file

\* if converted_path.exists(): converted_path.unlink()
Unlinked(file) == "absent"

\* a step before the try block raises: the exception leaves process_geotiff
G_Raise(e) ==
  /\ gPc' = "idle"
  /\ raisedError' = e
  /\ UNCHANGED <<gTask, gRuns, storage_server_path, input_path,
                 converted_path, geotiff_info>>

\* a step inside the try block raises: except wraps the exception into a
\* ProcessingError, and the finally clause runs before it leaves
G_Except(message) ==
  /\ gPc' = "g_finally"
  /\ raisedError' = ProcessingError(message, gTask.id, gTask.dataset_id)
  /\ UNCHANGED <<gTask, gRuns, storage_server_path, input_path, geotiff_info>>

G_Goto(from, to) == gPc = from /\ gPc' = to

\* process_geotiff(task, temp_dir) is called for a convert task
G_Start ==
  /\ gPc = "idle" /\ gRuns < MaxTasks
  /\ \E d \in DatasetIds :
       gTask' = [id |-> gRuns + 1, dataset_id |-> d]
  /\ gPc' = "g_login"
  /\ gRuns' = gRuns + 1
  /\ raisedError' = NoError
  /\ UNCHANGED <<token_fresh, storage_server_path, input_path, converted_path,
                 geotiff_info, status, faults, convFrame>>

\* token = login(...); verify_token(token)
G_Login ==
  /\ gPc = "g_login"
  /\ \/ /\ gPc' = "g_load" /\ token_fresh' = TRUE
        /\ UNCHANGED <<gTask, gRuns, storage_server_path, input_path,
                       converted_path, geotiff_info, raisedError, faults>>
     \/ /\ Fault
        /\ G_Raise(AuthenticationError("Invalid processor token", gTask.id))
        /\ UNCHANGED token_fresh
  /\ UNCHANGED <<status, convFrame>>

G_Load ==
  /\ gPc = "g_load"
  /\ \/ /\ gPc' = "g_status"
        /\ UNCHANGED <<gTask, gRuns, storage_server_path, input_path,
                       converted_path, geotiff_info, raisedError, faults>>
     \/ /\ Fault
        /\ G_Raise(DatasetError("Failed to fetch dataset", gTask.dataset_id, gTask.id))
  /\ UNCHANGED <<token_fresh, status, convFrame>>

G_StatusConverting ==
  /\ G_Goto("g_status", "g_pull")
  /\ update_status(gTask.dataset_id, "converting")
  /\ UNCHANGED <<gTask, gRuns, token_fresh, storage_server_path, input_path,
                 converted_path, geotiff_info, raisedError, convFrame>>

G_Pull ==
  /\ gPc = "g_pull"
  /\ \/ /\ gPc' = "g_convert"
        /\ input_path' = storage_server_path[gTask.dataset_id]
        /\ UNCHANGED <<gTask, gRuns, storage_server_path, geotiff_info,
                       raisedError, faults>>
     \/ /\ Fault
        /\ G_Except("pull")
  /\ UNCHANGED <<token_fresh, converted_path, status, convFrame>>

\* convert_geotiff: gdalwarp writes the output file; True when it exited
\* with 0, False (and whatever it had written) when it did not
G_Convert ==
  /\ gPc = "g_convert"
  /\ \/ /\ gPc' = "g_verify"
        /\ converted_path' \in {"valid", "broken"}
        /\ UNCHANGED <<gTask, gRuns, storage_server_path, input_path,
                       geotiff_info, raisedError>>
     \/ /\ G_Except("Conversion failed")
        /\ converted_path' \in {"absent", "broken"}
  /\ token_fresh' = FALSE
  /\ UNCHANGED <<status, faults, convFrame>>

G_Verify ==
  /\ gPc = "g_verify"
  /\ IF verify_geotiff(converted_path)
       THEN /\ gPc' = "g_push"
            /\ UNCHANGED <<gTask, gRuns, storage_server_path, input_path,
                           geotiff_info, raisedError>>
       ELSE G_Except("Converted file verification failed")
  /\ token_fresh' = FALSE
  /\ UNCHANGED <<converted_path, status, faults, convFrame>>

\* push_file_to_storage_server(converted_path, storage_server_path): the
\* archive file is replaced, or the push raises and it is left as it was
G_Push ==
  /\ gPc = "g_push"
  /\ \/ /\ gPc' = "g_info"
        /\ storage_server_path' =
             [storage_server_path EXCEPT ![gTask.dataset_id] = converted_path]
        /\ UNCHANGED <<gTask, gRuns, input_path, geotiff_info, raisedError,
                       faults>>
     \/ /\ Fault
        /\ G_Except("push")
  /\ UNCHANGED <<token_fresh, converted_path, status, convFrame>>

\* create_geotiff_info_entry(converted_path, dataset.id, token)
G_Info ==
  /\ gPc = "g_info"
  /\ \/ /\ gPc' = "g_swap"
        /\ geotiff_info' = upsert(geotiff_info, gTask.dataset_id)
        /\ UNCHANGED <<gTask, gRuns, storage_server_path, input_path,
                       raisedError, faults>>
     \/ /\ Fault
        /\ G_Except("info")
  /\ UNCHANGED <<token_fresh, converted_path, status, convFrame>>

\* input_path.unlink(); converted_path.rename(input_path)
G_Swap ==
  /\ G_Goto("g_swap", "g_finally")
  /\ input_path' = converted_path
  /\ converted_path' = "absent"
  /\ UNCHANGED <<gTask, gRuns, token_fresh, storage_server_path, geotiff_info,
                 raisedError, status, faults, convFrame>>

G_Finally ==
  /\ gPc = "g_finally"
  /\ converted_path' = Unlinked(converted_path)
  /\ gPc' = IF raisedError = NoError THEN "g_final" ELSE "idle"
  /\ UNCHANGED <<gTask, gRuns, token_fresh, storage_server_path, input_path,
                 geotiff_info, raisedError, status, faults, convFrame>>

G_StatusProcessed ==
  /\ G_Goto("g_final", "idle")
  /\ update_status(gTask.dataset_id, "processed")
  /\ UNCHANGED <<gTask, gRuns, token_fresh, storage_server_path, input_path,
                 converted_path, geotiff_info, raisedError, convFrame>>

process_geotiff ==
  \/ G_Start \/ G_Login \/ G_Load \/ G_StatusConverting \/ G_Pull
  \/ G_Convert \/ G_Verify \/ G_Push \/ G_Info \/ G_Swap \/ G_Finally
  \/ G_StatusProcessed


(***************************************************************************)
(* Status manager on whole rows of the datasets table                      *)
(***************************************************************************)
\* what the sections above own
earlyVars == <<schedOwn, pushVars, pullVars, uploadVars, apiVars, convVars>>

\* what a call of update_status leaves alone
statusFrame == <<earlyVars, segVars, legacyVars, stageVars, downloadVars>>

\* a row of the datasets table: its id, its status and its other columns
DatasetRow(id, st) ==
  [id |-> id, status |-> st, file_name |-> Uuids[id],
   file_size |-> Some(id), bbox |-> Some("bounds")]

NoStatusCall == [dataset_id |-> 0, status |-> "none", before |-> "none"]

StatusQuiet ==
  /\ dataset_rows = {}
  /\ statusCall = NoStatusCall

InitStatusRows ==
  /\ dataset_rows \in
       {{DatasetRow(d, f[d]) : d \in DatasetIds} : f \in [DatasetIds -> StatusEnum]}
  /\ statusCall = NoStatusCall

\* the table after an update that had no filter on the id
Updated_all(rows, dataset_id, st) == {[r EXCEPT !.status = st] : r \in rows}

\* table(datasets).update({'status': status.value}).eq('id', dataset_id)
Updated(rows, dataset_id, st) ==
  {IF r.id = dataset_id THEN [r EXCEPT !.status = st] ELSE r : r \in rows}

\* the status of the row with that id, "none" when there is no such row
StatusOf(rows, dataset_id) ==
  IF \E r \in rows : r.id = dataset_id
    THEN (CHOOSE r \in rows : r.id = dataset_id).status
    ELSE "none"

\* update_status(token, dataset_id, status): the write, or a failure of the
\* write that is logged and swallowed
UpdateStatus(dataset_id, st) ==
  /\ \/ dataset_rows' = Updated(dataset_rows, dataset_id, st)
     \/ UNCHANGED dataset_rows
  /\ statusCall' = [dataset_id |-> dataset_id, status |-> st,
                    before |-> StatusOf(dataset_rows, dataset_id)]
  /\ UNCHANGED statusFrame

NextStatus ==
  \E d \in DatasetIds \cup {MissingDatasetId}, st \in StatusEnum :
    UpdateStatus(d, st)

(***************************************************************************)
(* Derive-segmentation handler                                             *)
(***************************************************************************)
segFrame == <<earlyVars, statusCall, legacyVars, stageVars, downloadVars>>

\* a value handed back with return
ReturnedException(status_code, detail) ==
  [kind |-> "HTTPException", message |-> detail, task_id |-> None,
   dataset_id |-> None]

UnboundLocalError ==
  [kind |-> "UnboundLocalError", message |-> "response", task_id |-> None,
   dataset_id |-> None]

NoResult == [how |-> "none", value |-> NoError]

SegQuiet ==
  /\ segPc = "idle"
  /\ segTask = 0
  /\ segSubmit = "none"
  /\ segResult = NoResult

\* what upload_to_supabase can meet
SubmitOutcomes == {"accepted", "rejected", "unreachable", "denied"}

\* upload_to_supabase: an invalid token raises; a response is returned
\* whatever its status code; a request that raises is caught by a handler
\* whose log line reads the unassigned response
upload_to_supabase(o) ==
  CASE o = "denied" -> [how |-> "raised", value |-> AuthenticationError("Invalid token", None)]
    [] o = "unreachable" -> [how |-> "raised", value |-> UnboundLocalError]
    [] o = "rejected" -> [how |-> "returned", value |-> Some(500)]
    [] OTHER -> [how |-> "returned", value |-> Some(200)]

\* predict_deadwood after inference: what upload_to_supabase raises is passed
\* on, a response other than 200 raises a ProcessingError
predict_deadwood(o, dataset_id) ==
  LET res == upload_to_supabase(o) IN
    IF res.how = "raised" THEN res
    ELSE IF res.value = Some(200) THEN [how |-> "returned", value |-> NoError]
    ELSE [how |-> "raised",
          value |-> ProcessingError("Error uploading to supabase", None, Some(dataset_id))]

\* the except clause around predict_deadwood: the exception is logged and an
\* HTTPException is returned
Caught(res) ==
  [how |-> "returned",
   value |-> ReturnedException(500, "Error running deadwood segmentation")]

S_Leave(res) ==
  /\ segPc' = "left"
  /\ segResult' = res

S_Write(st) ==
  \/ dataset_rows' = Updated(dataset_rows, segTask, st)
  \/ UNCHANGED dataset_rows

S_Start ==
  /\ segPc = "idle"
  /\ \E d \in DatasetIds : segTask' = d
  /\ segPc' = "login"
  /\ segSubmit' = "none"
  /\ segResult' = NoResult
  /\ UNCHANGED <<segFrame, dataset_rows>>

S_Login ==
  /\ segPc = "login"
  /\ \/ segPc' = "load" /\ UNCHANGED segResult
     \/ S_Leave([how |-> "returned", value |-> ReturnedException(401, "Invalid token")])
  /\ UNCHANGED <<segFrame, dataset_rows, segTask, segSubmit>>

S_Load ==
  /\ segPc = "load"
  /\ \/ segPc' = "status_processing" /\ UNCHANGED segResult
     \/ S_Leave([how |-> "returned", value |-> ReturnedException(500, "Error fetching dataset")])
  /\ UNCHANGED <<segFrame, dataset_rows, segTask, segSubmit>>

S_StatusProcessing ==
  /\ segPc = "status_processing"
  /\ S_Write("processing")
  /\ segPc' = "pull"
  /\ UNCHANGED <<segFrame, segTask, segSubmit, segResult>>

S_Pull ==
  /\ segPc = "pull"
  /\ \/ segPc' = "inference" /\ UNCHANGED segResult
     \/ S_Leave([how |-> "raised", value |-> TypeError])
  /\ UNCHANGED <<segFrame, dataset_rows, segTask, segSubmit>>

\* inference_deadwood, transform_mask and extract_bbox
S_Inference ==
  /\ segPc = "inference"
  /\ \/ segPc' = "submit" /\ UNCHANGED segResult
     \/ /\ segPc' = "except"
        /\ segResult' = [how |-> "raised", value |-> TypeError]
  /\ UNCHANGED <<segFrame, dataset_rows, segTask, segSubmit>>

S_Submit ==
  /\ segPc = "submit"
  /\ \E o \in SubmitOutcomes :
       /\ segSubmit' = o
       /\ segResult' = predict_deadwood(o, segTask)
       /\ segPc' = IF segResult'.how = "raised" THEN "except" ELSE "relogin"
  /\ UNCHANGED <<segFrame, dataset_rows, segTask>>

S_Except ==
  /\ segPc = "except"
  /\ S_Write("errored")
  /\ S_Leave(Caught(segResult))
  /\ UNCHANGED <<segFrame, segTask, segSubmit>>

S_StatusProcessed ==
  /\ segPc = "relogin"
  /\ S_Write("processed")
  /\ S_Leave([how |-> "returned", value |-> NoError])
  /\ UNCHANGED <<segFrame, segTask, segSubmit>>

S_Return ==
  /\ segPc = "left"
  /\ segPc' = "idle"
  /\ UNCHANGED <<segFrame, dataset_rows, segTask, segSubmit, segResult>>

process_deadwood_segmentation ==
  \/ S_Start \/ S_Login \/ S_Load \/ S_StatusProcessing \/ S_Pull
  \/ S_Inference \/ S_Submit \/ S_Except \/ S_StatusProcessed \/ S_Return

(***************************************************************************)
(* Legacy scheduler: background_process of src/src/queue.py, started by    *)
(* API requests and by Timer threads                                       *)
(***************************************************************************)
legacyFrame == <<earlyVars, statusVars, segVars, lHides, stageVars,
    downloadVars>>

\* invocations of background_process that can run at the same time
Invocations == 1..MaxInvocations

\* no invocation is running
NoInvocations == [i \in {} |-> [pc |-> "count", num |-> 0, task |-> NoTask]]

LegacyQuiet ==
  /\ lQueue = {}
  /\ lNextId = 1
  /\ lRun = NoInvocations
  /\ lTimers = 0
  /\ lHides = FALSE

InitLegacy ==
  /\ lQueue = {}
  /\ lNextId = 1
  /\ lRun = NoInvocations
  /\ lTimers = 0
  /\ lHides \in BOOLEAN

\* the rows the position view lists
Listed(q) == IF lHides THEN {r \in q : ~r.is_processing} ELSE q

\* update({"is_processing": True}).eq("id", id)
Marked(q, id) ==
  {IF r.id = id THEN [r EXCEPT !.is_processing = TRUE] ELSE r : r \in q}

\* background_process starts in a thread of its own
L_Call(i) ==
  /\ i \notin DOMAIN lRun
  /\ lRun' = [j \in DOMAIN lRun \cup {i} |->
                IF j = i THEN [pc |-> "count", num |-> 0, task |-> NoTask]
                ELSE lRun[j]]

L_Return(i) == lRun' = [j \in DOMAIN lRun \ {i} |-> lRun[j]]

\* Timer(interval, function=background_process).start()
TimerStarted(n) == IF n < MaxTimers THEN n + 1 ELSE n

\* create_cog inserts a row and hands background_process to the background
\* tasks of the request
L_Request(i) ==
  /\ L_Call(i)
  /\ lNextId <= MaxTasks
  /\ \E d \in DatasetIds :
       lQueue' = lQueue \cup {TaskPayload(lNextId, d, "cog")}
  /\ lNextId' = lNextId + 1
  /\ UNCHANGED <<lTimers, legacyFrame>>

\* a Timer thread runs background_process
L_Timer(i) ==
  /\ L_Call(i)
  /\ lTimers > 0
  /\ lTimers' = lTimers - 1
  /\ UNCHANGED <<lQueue, lNextId, legacyFrame>>

\* num_of_running = current_running_tasks(token)
L_Count(i) ==
  /\ i \in DOMAIN lRun
  /\ lRun[i].pc = "count"
  /\ lRun' = [lRun EXCEPT ![i].num = current_running_tasks(lQueue),
                          ![i].pc = "length"]
  /\ UNCHANGED <<lQueue, lNextId, lTimers, legacyFrame>>

\* queued_tasks = queue_length(token) and the two tests that follow it
L_Length(i) ==
  /\ i \in DOMAIN lRun
  /\ lRun[i].pc = "length"
  /\ IF queue_length(Listed(lQueue)) = 0
       THEN L_Return(i) /\ UNCHANGED lTimers
       ELSE IF SpotAvailable(lRun[i].num)
         THEN /\ lRun' = [lRun EXCEPT ![i].pc = "fetch"]
              /\ UNCHANGED lTimers
         ELSE /\ L_Return(i)
              /\ lTimers' = TimerStarted(lTimers)
  /\ UNCHANGED <<lQueue, lNextId, legacyFrame>>

\* task = get_next_task(token)
L_Fetch(i) ==
  /\ i \in DOMAIN lRun
  /\ lRun[i].pc = "fetch"
  /\ IF get_next_task(Listed(lQueue)) = NoTask
       THEN L_Return(i)
       ELSE lRun' = [lRun EXCEPT ![i].task = get_next_task(Listed(lQueue)),
                                 ![i].pc = "mark"]
  /\ UNCHANGED <<lQueue, lNextId, lTimers, legacyFrame>>

\* process_task marks the row of its task
L_Mark(i) ==
  /\ i \in DOMAIN lRun
  /\ lRun[i].pc = "mark"
  /\ lQueue' = Marked(lQueue, lRun[i].task.id)
  /\ lRun' = [lRun EXCEPT ![i].pc = "process"]
  /\ UNCHANGED <<lNextId, lTimers, legacyFrame>>

\* process_cog returns or raises; the exception is logged
L_Process(i) ==
  /\ i \in DOMAIN lRun
  /\ lRun[i].pc = "process"
  /\ lRun' = [lRun EXCEPT ![i].pc = "delete"]
  /\ UNCHANGED <<lQueue, lNextId, lTimers, legacyFrame>>

\* finally: the row is deleted; background_process starts a Timer and ends
L_Delete(i) ==
  /\ i \in DOMAIN lRun
  /\ lRun[i].pc = "delete"
  /\ lQueue' = {r \in lQueue : r.id # lRun[i].task.id}
  /\ lTimers' = TimerStarted(lTimers)
  /\ L_Return(i)
  /\ UNCHANGED <<lNextId, legacyFrame>>

legacy_background_process(i) ==
  \/ L_Request(i) \/ L_Timer(i) \/ L_Count(i) \/ L_Length(i) \/ L_Fetch(i)
  \/ L_Mark(i) \/ L_Process(i) \/ L_Delete(i)

NextLegacy == \E i \in Invocations : legacy_background_process(i)

(***************************************************************************)
(* The pulls of one task: process_task runs process_cog and                *)
(* process_thumbnail on settings.processing_path                           *)
(***************************************************************************)
stageFrame ==
  <<schedOwn, pushVars, uploadVars, apiVars, convVars, statusVars, segVars,
    legacyVars, downloadVars, archiveRemote, pullPc, pullArg, sessions>>

StageQuiet ==
  /\ aPc = "idle"
  /\ aType = "none"
  /\ aFile = NoPull
  /\ aBase = 0

\* the local path of the source raster if each stage had a directory of
\* its own
stage_input_path_own(stage, name) ==
  IF stage = "thumb_pull"
    THEN CHOOSE g \in PullFiles : g # name
    ELSE name

\* input_path of a stage: temp_dir / dataset.file_name, with the same
\* temp_dir (settings.processing_path) in both stages
stage_input_path(stage, name) == name

\* process_task starts on a task of any type
A_Start ==
  /\ aPc = "idle"
  /\ pullPc = "idle"
  /\ \E tt \in TaskTypeEnum, f \in PullFiles :
       /\ aType' = tt
       /\ aFile' = f
       /\ aPc' = IF RunsCog(tt) THEN "cog_pull" ELSE "thumb_pull"
  /\ aBase' = sessions
  /\ pullResult' = "none"
  /\ UNCHANGED <<stageFrame, localFs, pulled>>

\* process_cog and process_thumbnail call pull_file_from_storage_server
\* with input_path = temp_dir / dataset.file_name
A_Pull ==
  /\ aPc \in {"cog_pull", "thumb_pull"}
  /\ pullResult = "none"
  /\ PullCall(stage_input_path(aPc, aFile))

\* the pull of process_cog has returned or raised: the rest of process_cog,
\* which may raise as well
A_CogRest ==
  /\ aPc = "cog_pull"
  /\ pullPc = "idle"
  /\ pullResult \in {"exists", "pulled", "raised"}
  /\ \/ /\ pullResult # "raised"
        /\ aPc' = IF RunsThumbnail(aType) THEN "thumb_pull" ELSE "finally"
     \/ aPc' = "finally"
  /\ pullResult' = "none"
  /\ UNCHANGED <<stageFrame, aType, aFile, aBase, localFs, pulled>>

\* the pull of process_thumbnail has returned or raised: the rest of
\* process_thumbnail
A_ThumbRest ==
  /\ aPc = "thumb_pull"
  /\ pullPc = "idle"
  /\ pullResult \in {"exists", "pulled", "raised"}
  /\ aPc' = "finally"
  /\ UNCHANGED <<stageFrame, aType, aFile, aBase, localFs, pulled, pullResult>>

\* finally: shutil.rmtree(settings.processing_path) outside DEV_MODE
A_Finally ==
  /\ aPc = "finally"
  /\ aPc' = "idle"
  /\ IF DEV_MODE
       THEN UNCHANGED <<localFs, pulled>>
       ELSE /\ localFs' = [f \in PullFiles |-> Absent]
            /\ pulled' = {}
  /\ UNCHANGED <<stageFrame, aType, aFile, aBase, pullResult>>

NextStages ==
  \/ A_Start \/ A_Pull \/ A_CogRest \/ A_ThumbRest \/ A_Finally
  \/ PullConnect \/ PullConnectFail
  \/ PullGetOpen \/ PullGetWrite \/ PullGetDone \/ PullGetFail
  \/ \E f \in PullFiles : RemoteChange(f)

(***************************************************************************)
(* Rate limiting of the download application: the middleware rate_limiting *)
(***************************************************************************)
downloadFrame == <<earlyVars, statusVars, segVars, legacyVars, stageVars>>

\* requests that can be open at the same time, and the hosts they come from
DownloadRequests == 1..MaxRequests

ClientIps == {"ip1", "ip2"}

\* the open requests: the host each came from, where it is, whether the
\* middleware let it pass, and the status code the client is answered with
NoDownloads ==
  [r \in {} |-> [ip |-> "", pc |-> "done", passed |-> FALSE, status_code |-> 0]]

DownloadQuiet ==
  /\ CONNECTED_IPS = {}
  /\ dReq = NoDownloads

\* the answer to an HTTPException of the given status code that is raised
\* in the middleware function: the exception handlers of the application
\* sit inside the middleware, the exception leaves the application and the
\* server answers 500
Answered(status_code) == 500

Opened(r, req) ==
  [x \in DOMAIN dReq \cup {r} |-> IF x = r THEN req ELSE dReq[x]]

\* a request arrives: the test of CONNECTED_IPS and the entry are made with
\* no await in between
D_Arrive(r, ip) ==
  /\ r \notin DOMAIN dReq
  /\ IF ip \in CONNECTED_IPS
       THEN /\ dReq' = Opened(r, [ip |-> ip, pc |-> "done", passed |-> FALSE,
                                  status_code |-> Answered(429)])
            /\ UNCHANGED CONNECTED_IPS
       ELSE /\ CONNECTED_IPS' = CONNECTED_IPS \cup {ip}
            /\ dReq' = Opened(r, [ip |-> ip, pc |-> "call_next", passed |-> TRUE,
                                  status_code |-> 0])
  /\ UNCHANGED downloadFrame

\* call_next returns the response once the route has started it (also the
\* answer to an HTTPException of the route); finally deletes the entry; the
\* body is sent after the middleware function has returned
D_Return(r) ==
  /\ r \in DOMAIN dReq
  /\ dReq[r].pc = "call_next"
  /\ \E code \in {200, 404} :
       dReq' = [dReq EXCEPT ![r].pc = "body", ![r].status_code = code]
  /\ CONNECTED_IPS' = CONNECTED_IPS \ {dReq[r].ip}
  /\ UNCHANGED downloadFrame

\* call_next raises: except raises HTTPException(500), finally deletes the
\* entry
D_Raise(r) ==
  /\ r \in DOMAIN dReq
  /\ dReq[r].pc = "call_next"
  /\ dReq' = [dReq EXCEPT ![r].pc = "done", ![r].status_code = Answered(500)]
  /\ CONNECTED_IPS' = CONNECTED_IPS \ {dReq[r].ip}
  /\ UNCHANGED downloadFrame

\* the last byte of the file has been sent, or the client has gone
D_BodySent(r) ==
  /\ r \in DOMAIN dReq
  /\ dReq[r].pc = "body"
  /\ dReq' = [dReq EXCEPT ![r].pc = "done"]
  /\ UNCHANGED <<CONNECTED_IPS, downloadFrame>>

\* the connection of a finished request is closed
D_Close(r) ==
  /\ r \in DOMAIN dReq
  /\ dReq[r].pc = "done"
  /\ dReq' = [x \in DOMAIN dReq \ {r} |-> dReq[x]]
  /\ UNCHANGED <<CONNECTED_IPS, downloadFrame>>

rate_limiting(r) ==
  \/ \E ip \in ClientIps : D_Arrive(r, ip)
  \/ D_Return(r) \/ D_Raise(r) \/ D_BodySent(r) \/ D_Close(r)

NextDownload == \E r \in DownloadRequests : rate_limiting(r)

LateQuiet ==
  StatusQuiet /\ SegQuiet /\ LegacyQuiet /\ StageQuiet /\ DownloadQuiet

(***************************************************************************)
(* Specification of the scheduler and task processor                       *)
(***************************************************************************)
Scheduler(p) ==
  \/ BP_Login(p) \/ BP_Raise(p) \/ BP_Count(p) \/ BP_Length(p)
  \/ BP_Fetch(p) \/ BP_Eligible(p) \/ BP_Decide(p)
  \/ PT_Verify(p) \/ PT_Load(p) \/ PT_Raise(p) \/ PT_Delete(p)
  \/ COG_Login(p) \/ COG_Load(p) \/ COG_StatusProcessing(p) \/ COG_Pull(p)
  \/ COG_Calc(p) \/ COG_Push(p) \/ COG_Relogin(p) \/ COG_Upsert(p)
  \/ COG_StatusProcessed(p)
  \/ THUMB_Login(p) \/ THUMB_Load(p) \/ THUMB_StatusProcessing(p)
  \/ THUMB_Pull(p) \/ THUMB_Calc(p) \/ THUMB_Push(p) \/ THUMB_Relogin(p)
  \/ THUMB_Upsert(p) \/ THUMB_StatusProcessed(p)

Next ==
  \/ \E d \in DatasetIds, tt \in {RowType(nextId)} : create_processing_task(d, tt)
  \/ \E p \in Procs : Scheduler(p)

\* the scheduler at rest on an empty queue
SchedQuiet ==
  /\ InitSchedBase
  /\ queue = {}
  /\ status = [d \in DatasetIds |-> "uploaded"]
  /\ faults = -1

Init == InitSched /\ PushQuiet /\ PullQuiet /\ UploadQuiet /\ ApiQuiet /\ ConvQuiet /\ LateQuiet

Spec == Init /\ [][Next]_vars

\* the scheduler keeps polling (run_processor loops, cron starts it again),
\* and only finitely many operations fail
InitFair ==
  /\ InitSchedBase /\ faults \in 0..MaxFaults
  /\ PushQuiet /\ PullQuiet /\ UploadQuiet /\ ApiQuiet /\ ConvQuiet /\ LateQuiet

FairSpec == InitFair /\ [][Next]_vars /\ \A p \in Procs : WF_vars(Scheduler(p))

(***************************************************************************)
(* Specifications of the file transfer client and of the chunk assembler   *)
(***************************************************************************)
NextPush == \E p \in Procs : Push(p)

InitSpecPush == SchedQuiet /\ InitPush /\ PullQuiet /\ UploadQuiet /\ ApiQuiet /\ ConvQuiet /\ LateQuiet

\* the final path of the optimized raster of dataset 1, which both pushes
\* of the same task target
RacePath == "cogs/1_cog.tif"

\* a push to that path
PushRace(p) ==
  \/ \E v \in LocalFiles : PushCall(p, v, RacePath)
  \/ PushConnect(p) \/ PushConnectFail(p)
  \/ PushPutOpen(p) \/ PushPutWrite(p) \/ PushPutDone(p) \/ PushPutFail(p)
  \/ PushRename(p) \/ PushRenameFail(p) \/ PushCleanup(p)
  \/ PushInterrupt(p)

\* two processors push to the same final path at the same time
NextPushRace == \E p \in AllProcs : PushRace(p)

InitPushRace ==
  /\ SchedQuiet /\ PushQuiet /\ PullQuiet /\ UploadQuiet /\ ApiQuiet
  /\ ConvQuiet /\ LateQuiet

SpecPushRace == InitPushRace /\ [][NextPushRace]_vars

SpecPush == InitSpecPush /\ [][NextPush]_vars

NextPull == Pull

InitSpecPull == SchedQuiet /\ PushQuiet /\ InitPull /\ UploadQuiet /\ ApiQuiet /\ ConvQuiet /\ LateQuiet

SpecPull == InitSpecPull /\ [][NextPull]_vars

NextUpload == Upload \/ CreateDatasetEntry

InitSpecUpload == SchedQuiet /\ PushQuiet /\ PullQuiet /\ InitUpload /\ ApiQuiet /\ ConvQuiet /\ LateQuiet

SpecUpload == InitSpecUpload /\ [][NextUpload]_vars

SpecApi == Init /\ [][NextApi]_vars

NextConvert == process_geotiff

InitSpecConvert ==
  /\ InitSchedBase /\ queue = {} /\ faults = -1
  /\ PushQuiet /\ PullQuiet /\ UploadQuiet /\ ApiQuiet /\ ConvQuiet /\ LateQuiet

SpecConvert == InitSpecConvert /\ [][NextConvert]_vars

InitSpecStatus ==
  /\ SchedQuiet /\ PushQuiet /\ PullQuiet /\ UploadQuiet /\ ApiQuiet
  /\ ConvQuiet /\ InitStatusRows /\ SegQuiet /\ LegacyQuiet /\ StageQuiet /\ DownloadQuiet

InitSpecSeg ==
  /\ SchedQuiet /\ PushQuiet /\ PullQuiet /\ UploadQuiet /\ ApiQuiet
  /\ ConvQuiet /\ InitStatusRows /\ SegQuiet /\ LegacyQuiet /\ StageQuiet /\ DownloadQuiet

InitSpecStages ==
  /\ SchedQuiet /\ InitPull /\ UploadQuiet /\ ApiQuiet /\ ConvQuiet
  /\ StatusQuiet /\ SegQuiet /\ LegacyQuiet /\ StageQuiet /\ DownloadQuiet
  /\ DEV_MODE \in BOOLEAN
  /\ remote = [r \in RemotePaths |-> Absent]
  /\ pushPc = [p \in AllProcs |-> "idle"]
  /\ pushArg = [p \in AllProcs |-> NoPush]
  /\ pushResult = [p \in AllProcs |-> "none"]

SpecStages == InitSpecStages /\ [][NextStages]_vars

InitSpecDownload ==
  /\ SchedQuiet /\ PushQuiet /\ PullQuiet /\ UploadQuiet /\ ApiQuiet
  /\ ConvQuiet /\ LateQuiet

SpecDownload == InitSpecDownload /\ [][NextDownload]_vars

InitSpecLegacy ==
  /\ SchedQuiet /\ PushQuiet /\ PullQuiet /\ UploadQuiet /\ ApiQuiet
  /\ ConvQuiet /\ StatusQuiet /\ SegQuiet /\ InitLegacy /\ StageQuiet /\ DownloadQuiet

SpecLegacy == InitSpecLegacy /\ [][NextLegacy]_vars

SpecSeg == InitSpecSeg /\ [][process_deadwood_segmentation]_vars

SpecStatus == InitSpecStatus /\ [][NextStatus]_vars

\* two scheduler processes (two invocations of run_processor that overlap)
\* poll the same store, which holds at most one waiting row per process
NextRace == \E p \in AllProcs : Scheduler(p)

InitRace ==
  /\ InitSchedBase /\ faults \in 0..MaxFaults
  /\ Cardinality(queue) <= Cardinality(AllProcs)
  /\ PushQuiet /\ PullQuiet /\ UploadQuiet /\ ApiQuiet /\ ConvQuiet /\ LateQuiet

SpecRace == InitRace /\ [][NextRace]_vars

\* the continuous mode: one process started with DEV_MODE on keeps polling
\* a store that receives no new rows
NextLoop == \E p \in Procs : Scheduler(p)

InitLoop ==
  /\ InitSchedBase /\ faults = -1
  /\ Cardinality(queue) <= MaxTasks
  /\ DEV_MODE = TRUE
  /\ remote = [r \in RemotePaths |-> Absent]
  /\ pushPc = [p \in AllProcs |-> "idle"]
  /\ pushArg = [p \in AllProcs |-> NoPush]
  /\ pushResult = [p \in AllProcs |-> "none"]
  /\ PullQuiet /\ UploadQuiet /\ ApiQuiet /\ ConvQuiet /\ LateQuiet

LoopSpec ==
  InitLoop /\ [][NextLoop]_vars /\ \A p \in Procs : WF_vars(Scheduler(p))

(***************************************************************************)
(* Properties of the scheduler and task processor                          *)
(***************************************************************************)
TaskIds == 1..MaxTasks

ProcessingSteps == PT_Steps \cup COG_Steps \cup THUMB_Steps

RowPresent(q, id) == \E r \in q : r.id = id

Raised == {"task_raised", "handler_raised"}

\* the handlers a task type requires, as the specification states them
Required(tt) == IF tt = "all" THEN {"cog", "thumbnail"} ELSE {tt}

\* C1: a queue row disappears only in the delete step of a process_task
\* whose required handlers have all returned normally; when process_task
\* exits by raising, the row of its task is still in the queue.
C1_RemovedOnlyAfterSuccess ==
  [][ /\ \A r \in queue :
           ~RowPresent(queue', r.id) =>
             \E p \in AllProcs :
               /\ pc[p] = "pt_delete"
               /\ task[p].id = r.id
               /\ Required(task[p].task_type) \subseteq completed[p]
      /\ \A p \in AllProcs :
           (pc[p] \in ProcessingSteps /\ outcome'[p] \in Raised) =>
             RowPresent(queue', task[p].id)
    ]_vars

\* a handler raised, its task is still queued, and an earlier task was
\* removed after success
C1_Witness ==
  \E p \in AllProcs :
    /\ outcome[p] = "handler_raised"
    /\ RowPresent(queue, lastTask[p])
    /\ order # <<>>

\* C2: when the conversion tool raises in a cog task, the dataset's status
\* is `errored` when process_task exits.
C2_ErroredAfterToolFailure ==
  [][ \A p \in AllProcs :
        (pc[p] = "cog_calc" /\ outcome'[p] \in Raised) =>
          status'[task[p].dataset_id] = "errored"
    ]_vars

IsHead(t) == get_next_task(queue).id = t

\* C3: a task whose attempt failed, and which is at the head of the queue
\* while a spot is available, is eventually handed to process_task again.
C3_FailedTaskRetried ==
  \A t \in TaskIds : \A p \in Procs :
    (outcome[p] \in Raised /\ lastTask[p] = t /\ IsHead(t))
      ~> (\/ pc[p] = "pt_verify" /\ task[p].id = t
          \/ ~IsHead(t)
          \/ ~SpotAvailable(current_running_tasks(queue)))

\* C4: process_task runs only for a task whose dataset status, as read in
\* the same poll cycle, was uploaded or processed.
C4_EligibilityGate ==
  \A p \in AllProcs :
    pc[p] \in ProcessingSteps =>
      /\ task[p] # NoTask
      /\ statusRead[p] \in {"uploaded", "processed"}

\* a cycle declined the head task because of its dataset status although a
\* later task in the queue belongs to an eligible dataset
C4_Witness ==
  \E p \in AllProcs :
    /\ outcome[p] = "not_uploaded"
    /\ get_next_task(queue) # NoTask
    /\ status[get_next_task(queue).dataset_id] \in {"pending", "cog_processing"}
    /\ \E r \in queue : status[r.dataset_id] \in {"uploaded", "processed"}

\* C5: a poll cycle that counted at least CONCURRENT_TASKS running tasks
\* ends at the cap test without dispatching and without changing the store.
C5_ConcurrencyCap ==
  [][ \A p \in AllProcs :
        (/\ pc[p] = "bp_length"
         /\ pc'[p] # pc[p]
         /\ num_of_running[p] >= CONCURRENT_TASKS) =>
          (pc'[p] = "idle" /\ UNCHANGED storeVars)
    ]_vars

\* a cycle ended with "no spot" while an unmarked task of an eligible
\* dataset was waiting in the queue
C5_Witness ==
  \E p \in AllProcs :
    /\ outcome[p] = "no_spot"
    /\ current_running_tasks(queue) >= CONCURRENT_TASKS
    /\ \E r \in queue : ~r.is_processing /\ status[r.dataset_id] = "uploaded"

C7_FinalPathNeverPartial ==
  /\ [](\A r \in FinalPaths : remote[r] = Absent \/ IsWhole(remote[r]))
  /\ [][ \A r \in FinalPaths :
           remote'[r] # remote[r] =>
             \E p \in AllProcs :
               /\ pushPc[p] = "rename"
               /\ pushArg[p].remote_file_path = r
               /\ remote'[r] = WholeFile(pushArg[p].local_file_path)
       ]_vars

\* a push was interrupted after the temporary upload and before the rename:
\* the temporary path holds the complete new file, the final path still
\* holds the complete file of an earlier push
C7_Witness ==
  \E p \in AllProcs, r \in FinalPaths :
    /\ pushResult[p] = "interrupted"
    /\ IsWhole(remote[temp_remote_path(r)])
    /\ IsWhole(remote[r])
    /\ remote[r].file # remote[temp_remote_path(r)].file

\* C8: once a pull call for a file has returned normally, and as long as
\* the local file is not removed, a further pull call for the same paths
\* returns at once: it opens no remote session, transfers nothing and
\* leaves the local file unchanged, whatever the remote file has become.
C8_PullIdempotent ==
  [][ \A f \in pulled \cap pulled' :
        /\ localFs'[f] = localFs[f]
        /\ ~(pullPc' # "idle" /\ pullArg' = f)
        /\ (pullArg = f \/ pullArg' = f) => sessions' = sessions
    ]_vars

\* the second call returned at once although the remote file had changed
C8_Witness ==
  \E f \in pulled :
    /\ pullResult = "exists"
    /\ pullPc = "idle"
    /\ sessions = 1
    /\ IsWhole(localFs[f])
    /\ localFs[f].file # archiveRemote[f]

(***************************************************************************)
(* Properties of the chunk assembler                                       *)
(***************************************************************************)
\* the assembled file of an upload id: the upload file while chunks are
\* still to come, the renamed file after the final chunk
AssembledFile(u) ==
  IF target[u] = NoTarget THEN archive[upload_file_name(u)] ELSE archive[target[u]]

\* C9: when the chunks 0..n-1 of an upload id were sent in order, the
\* assembled file's bytes equal the concatenation of the chunk bodies in
\* index order.
C9_ChunkReassembly ==
  \A u \in UploadIds : inOrder[u] => AssembledFile(u) = Flatten(sent[u])

\* an upload of MaxChunks chunks whose first two bodies differ was sent in
\* order and its final chunk produced a dataset
C9_Witness ==
  \E u \in UploadIds :
    /\ inOrder[u]
    /\ Len(sent[u]) = MaxChunks
    /\ sent[u][1] # sent[u][2]
    /\ target[u] # NoTarget
    /\ \E d \in datasets : d.file_name = target[u] /\ d.file_size = Some(MaxChunks)

\* C10: the hash stored with the dataset of an assembled file equals the
\* hash over all bytes of the file, so that datasets of different files
\* have different stored hashes.
C10_StoredHashIsFullHash ==
  LET assembled == {d \in datasets : \E u \in UploadIds : target[u] = d.file_name}
  IN
  /\ \A d \in assembled : d.sha256 = Some(compute_sha256(archive[d.file_name]))
  /\ \A d1, d2 \in assembled :
        archive[d1.file_name] # archive[d2.file_name] => d1.sha256 # d2.sha256

\* C11: the answer to a chunk that is not the last of its upload is an
\* acknowledgement carrying the chunk index and the total count, and the
\* request changes no dataset record; the answer to the last chunk, when it
\* was processed, is the dataset with status uploaded, a size above zero, a
\* hash and bounds.
C11_UploadResponses ==
  [][LET q == request'
         r == response'
     IN
     /\ q.chunk_index < q.chunks_total - 1 =>
          /\ r = JSONResponse("message",
                   [chunk_index |-> q.chunk_index, chunks_total |-> q.chunks_total])
          /\ datasets' = datasets
     /\ (q.chunk_index = q.chunks_total - 1 /\ r.status_code = 200) =>
          /\ r.kind = "dataset"
          /\ r.body.status = "uploaded"
          /\ r.body.file_size # None /\ r.body.file_size # Some(0)
          /\ r.body.sha256 # None
          /\ r.body.bbox # None
    ]_vars

\* C12: from the answer to the first chunk of an upload on, a dataset record
\* in status uploading exists while chunks are still to come, and a record
\* in status uploaded appears only with the processing of a final chunk.
C12_UploadingFromFirstChunk ==
  [][LET q == request'
     IN
     /\ response'.kind = "message" =>
          \E d \in datasets' : d.status = "uploading"
     /\ (\E d \in datasets' \ datasets : d.status = "uploaded") =>
          q.chunk_index = q.chunks_total - 1
    ]_vars

\* C13: a dataset record whose status is uploaded or a later one has a
\* content hash and a bounding box.
C13_UploadedHasHashAndBounds ==
  \A d \in datasets :
    d.status # "uploading" => d.sha256 # None /\ d.bbox # None

\* C14: the final chunk of a raster without coordinate reference system is
\* answered with an error, and no dataset record of an assembled file has
\* status uploaded and no bounds.
C14_NoCrsFails ==
  /\ (request.chunk_index = request.chunks_total - 1 /\ ~request.crs) =>
       response.kind = "error"
  /\ \A d \in datasets :
       (\E u \in UploadIds : target[u] = d.file_name) =>
         ~(d.status = "uploaded" /\ d.bbox = None)

(***************************************************************************)
(* Properties of the derived products                                      *)
(***************************************************************************)
\* C15: a dataset never has more than one row in the cogs table nor more
\* than one in the thumbnails table, and right after a successful upsert
\* of a handler exactly one row exists for the dataset of its task.
C15_OneRecordPerProduct ==
  /\ \A d \in DatasetIds : cogs[d] <= 1 /\ thumbnails[d] <= 1
  /\ \A p \in Procs :
       /\ pc[p] = "cog_final" => cogs[task[p].dataset_id] = 1
       /\ pc[p] = "thumb_final" => thumbnails[task[p].dataset_id] = 1

\* an `all` task has upserted the optimized raster and the thumbnail of a
\* dataset for which a cog task and a thumbnail task had been completed
\* before
C15_Witness ==
  \E p \in Procs, i, j \in 1..Len(order) :
    /\ pc[p] = "thumb_final"
    /\ task[p].task_type = "all"
    /\ "cog" \in completed[p]
    /\ order[i].dataset_id = task[p].dataset_id /\ order[i].task_type = "cog"
    /\ order[j].dataset_id = task[p].dataset_id /\ order[j].task_type = "thumbnail"

\* the rows of the product tables a task of that type has to produce exist
\* for the dataset
ProductsExist(tt, d, cogs_table, thumbnails_table) ==
  /\ "cog" \in Required(tt) => cogs_table[d] >= 1
  /\ "thumbnail" \in Required(tt) => thumbnails_table[d] >= 1

\* C16: when a step of a task turns the status of its dataset to processed,
\* every product the task type requires exists; during an `all` task the
\* status does not become processed before the cogs row and the thumbnails
\* row exist.
C16_ProcessedMeansProductsExist ==
  [][\A p \in Procs :
       LET d == task[p].dataset_id
       IN
       (/\ pc[p] \in {"cog_final", "thumb_final"}
        /\ pc'[p] # pc[p]
        /\ status[d] # "processed"
        /\ status'[d] = "processed")
         => ProductsExist(task[p].task_type, d, cogs', thumbnails')
    ]_vars

(***************************************************************************)
(* Properties of the API                                                   *)
(***************************************************************************)
\* the request of an authenticated user that no failing call met
Served(q) == q.user /\ q.how = "ok"

\* C17: a served request for a dataset that exists adds one row to the queue
\* (not processing, with the dataset id and the task type of the request)
\* and is answered with that task, carrying the position and the estimated
\* time of its row in the position view; when the view has no row for it,
\* the answer is the task with current_position -1 and estimated_time 0,
\* not an error.
C17_CreateTaskAnswer ==
  [][LET q == apiRequest'
         r == apiResponse'
         row == TaskPayload(nextId, q.dataset_id, q.task_type)
     IN
     (Served(q) /\ q.dataset_id \in DatasetIds) =>
       /\ queue' = queue \cup {row} /\ row \notin queue /\ ~row.is_processing
       /\ r.status_code = 200 /\ r.kind = "QueueTask"
       /\ r.body.dataset_id = q.dataset_id
       /\ q.indexed =>
            /\ r.body.id = Some(row.id)
            /\ r.body.task_type = q.task_type
            /\ QueuePositions(queue')[r.body.current_position] = row
            /\ r.body.estimated_time =
                 (IF q.estimated_time = None THEN Some(0) ELSE q.estimated_time)
       /\ ~q.indexed =>
            /\ r.body.current_position = -1
            /\ r.body.estimated_time = Some(0)
    ]_vars

\* C18: a served request for a dataset id without dataset is answered with
\* status 404 and leaves the queue as it was.
C18_MissingDatasetIs404 ==
  [][(Served(apiRequest') /\ apiRequest'.dataset_id \notin DatasetIds) =>
       /\ apiResponse'.status_code = 404
       /\ queue' = queue /\ nextId' = nextId
    ]_vars

C20_SingleShot ==
  [][\A p \in Procs :
       ~DEV_MODE =>
         /\ cycles'[p] <= 1
         /\ (pc[p] = "idle" /\ pc'[p] # "idle") => cycles[p] = 0
         /\ (pc[p] = "bp_decide" /\ pc'[p] = "pt_verify") => lastTask[p] = 0
         /\ (pc[p] # "idle" /\ pc'[p] = "idle") => cycles'[p] = 0
    ]_vars

\* an invocation has ended after its one cycle, which processed a task
C20_Witness ==
  \E p \in Procs :
    /\ ~DEV_MODE
    /\ pc[p] = "idle"
    /\ outcome[p] = "processed"
    /\ lastTask[p] # 0
    /\ cycles[p] = 0

(***************************************************************************)
(* Properties of the marking of running tasks and of concurrent schedulers *)
(***************************************************************************)
\* C21: while a process is inside process_task, the queue row of its task
\* is marked is_processing, so that current_running_tasks counts it; when
\* processing has ended the row is unmarked or gone.
C21_RunningTaskIsMarked ==
  /\ \A p \in Procs :
       pc[p] \in ProcessingSteps =>
         /\ \E r \in queue : r.id = task[p].id /\ r.is_processing
         /\ current_running_tasks(queue) >= 1
  /\ \A r \in queue :
       (r.id > initRows /\ r.is_processing) =>
         \E p \in Procs : pc[p] \in ProcessingSteps /\ task[p].id = r.id

PollSteps == {"bp_count", "bp_length", "bp_fetch", "bp_eligible", "bp_decide"}

\* C22: no step of a poll cycle, the dispatch included, writes the queue or
\* a dataset status: counting, fetching and starting are separate reads of
\* the store and the start marks nothing, and the fetch returns the head of
\* the queue whoever is processing it. Two processes polling at the same
\* time can therefore both hand the same task to process_task.
C22_PollWritesNothing ==
  [][\A p \in AllProcs :
       (pc[p] \in PollSteps /\ pc'[p] # pc[p]) =>
         /\ queue' = queue /\ status' = status
         /\ (pc[p] = "bp_fetch" /\ pc'[p] = "bp_eligible") =>
              task'[p] = get_next_task(queue)
    ]_vars

\* both processes are inside process_task with the same task
C22_Witness ==
  /\ pc[1] \in ProcessingSteps /\ pc[2] \in ProcessingSteps
  /\ task[1] = task[2] /\ task[1] # NoTask
  /\ RowPresent(queue, task[1].id)

\* C23: when get_next_task yields no task, the cycle only logs and ends:
\* with no injected failure, the step taken with a missing task does not
\* end the cycle by raising.
C23_NoTaskOnlyLogs ==
  [][\A p \in AllProcs :
       (pc[p] = "bp_eligible" /\ task[p] = NoTask /\ pc'[p] # pc[p]
          /\ faults' = faults) =>
         outcome'[p] # "cycle_raised"
    ]_vars

\* C24: when the dataset of the head task is not eligible, the cycle ends
\* without dispatching any task (it does not look past the head) and leaves
\* the queue and every dataset status as they were.
C24_IneligibleHeadBlocks ==
  [][\A p \in Procs :
       (pc[p] = "bp_decide" /\ task[p] # NoTask /\ ~is_uploaded[p]
          /\ pc'[p] # pc[p]) =>
         /\ pc'[p] = "idle" /\ outcome'[p] = "not_uploaded"
         /\ lastTask' = lastTask
         /\ queue' = queue /\ status' = status
    ]_vars

\* the cycle ended on an ineligible head while a later row's dataset was
\* eligible
C24_Witness ==
  /\ pc[1] = "idle" /\ outcome[1] = "not_uploaded"
  /\ queue # {}
  /\ ~is_dataset_uploaded_or_processed(status[get_next_task(queue).dataset_id])
  /\ \E r \in queue :
       /\ r.id # get_next_task(queue).id
       /\ is_dataset_uploaded_or_processed(status[r.dataset_id])

ProcessingStates ==
  {"converting", "cog_processing", "thumbnail_processing", "processing"}

ActiveStates == {"uploading", "uploaded"} \cup ProcessingStates

\* an edge of the lifecycle graph that a handler may take
LifecycleEdge(from, to) ==
  \/ to \in ProcessingStates /\ from = "uploaded"
  \/ to = "processed" /\ from \in ProcessingStates
  \/ to = "errored" /\ from \in ActiveStates

\* C25: every change of a dataset status written while tasks are processed
\* follows an edge of the lifecycle graph: into a processing state only from
\* uploaded, into processed only from a processing state, into errored only
\* from an active state.
C25_StatusFollowsLifecycle ==
  [][\A d \in DatasetIds :
       status'[d] # status[d] => LifecycleEdge(status[d], status'[d])
    ]_vars

\* the steps of process_cog from the first status write on, in the order
\* the claim states
CogOrder ==
  <<"cog_status", "cog_pull", "cog_calc", "cog_push", "cog_relogin",
    "cog_upsert", "cog_final">>

\* C26: in a cog task the steps happen in the order status cog_processing,
\* pull, conversion, push, upsert, status processed: each step is followed
\* by the next one or by the raise that ends the task, each write happens in
\* its own step, and processed is written only when the pushed file and the
\* upserted record are there.
C26_CogStepOrder ==
  [][\A p \in Procs :
       (pc[p] \in COG_Steps /\ pc'[p] # pc[p]) =>
         LET d == task[p].dataset_id IN
         /\ \A i \in 1..Len(CogOrder) :
              pc[p] = CogOrder[i] =>
                \/ pc'[p] = "idle" /\ outcome'[p] = "handler_raised"
                \/ i < Len(CogOrder) /\ pc'[p] = CogOrder[i + 1]
                \/ i = Len(CogOrder) /\ pc'[p] \notin COG_Steps
         /\ status' # status =>
              \/ pc[p] = "cog_status" /\ status'[d] = "cog_processing"
              \/ /\ pc[p] = "cog_final" /\ status'[d] = "processed"
                 /\ "cog" \in storage[d] /\ cogs[d] >= 1
         /\ storage' # storage => pc[p] = "cog_push"
         /\ cogs' # cogs => pc[p] = "cog_upsert" /\ "cog" \in storage[d]
    ]_vars

\* a cog task wrote processed after its file was pushed and its record
\* upserted
C26_Witness ==
  /\ pc[1] = "pt_delete" /\ task[1].task_type = "cog"
  /\ completed[1] = {"cog"}
  /\ status[task[1].dataset_id] = "processed"
  /\ storage[task[1].dataset_id] = {"cog"}
  /\ cogs[task[1].dataset_id] = 1

\* C27: in an `all` task a failure of the cog stage ends the task at once,
\* with no step of the thumbnail stage taken; a failure of the thumbnail
\* stage leaves the pushed cog file and the cogs record in place and the
\* task row in the queue.
C27_AllTaskFailure ==
  [][\A p \in Procs :
       (task[p].task_type = "all" /\ pc[p] \in COG_Steps \cup THUMB_Steps
          /\ pc'[p] = "idle") =>
         LET d == task[p].dataset_id IN
         /\ outcome'[p] = "handler_raised"
         /\ pc[p] \in COG_Steps => "cog" \notin completed[p]
         /\ pc[p] \in THUMB_Steps =>
              /\ "cog" \in completed[p]
              /\ "cog" \in storage'[d] /\ cogs'[d] = 1
         /\ storage' = storage /\ cogs' = cogs /\ thumbnails' = thumbnails
         /\ RowPresent(queue, task[p].id) => RowPresent(queue', task[p].id)
    ]_vars

\* the thumbnail stage of an `all` task failed: the cog file and record are
\* there, no thumbnail product is, and the row is still queued
C27_Witness ==
  /\ pc[1] = "idle" /\ outcome[1] = "handler_raised"
  /\ \E r \in queue :
       /\ r.task_type = "all" /\ r.id = lastTask[1]
       /\ status[r.dataset_id] = "thumbnail_processing"
       /\ storage[r.dataset_id] = {"cog"}
       /\ cogs[r.dataset_id] = 1 /\ thumbnails[r.dataset_id] = 0

(***************************************************************************)
(* Properties of the convert handler                                       *)
(***************************************************************************)
\* C28: each write to the metadata store that a stage makes after its
\* external tool call is made with a token obtained after that call
\* returned.
C28_WritesUseFreshToken ==
  [][(geotiff_info' # geotiff_info \/ status' # status) => token_fresh]_vars

\* C29: the archive file on the storage server is replaced only in the push
\* step, with an artifact that conversion produced and verification
\* accepted; when conversion or verification fails a ProcessingError is
\* raised with the archive file unchanged, and whenever process_geotiff is
\* left the conversion artifact is gone.
C29_ReplaceOnlyVerified ==
  [][/\ storage_server_path' # storage_server_path =>
          /\ gPc = "g_push" /\ converted_path = "valid"
          /\ storage_server_path'[gTask.dataset_id] = "valid"
     /\ (gPc \in {"g_convert", "g_verify"} /\ gPc' = "g_finally") =>
          /\ raisedError'.kind = "ProcessingError"
          /\ storage_server_path' = storage_server_path
     /\ (gPc = "g_finally" /\ gPc' # gPc) =>
          /\ converted_path' = "absent"
          /\ storage_server_path' = storage_server_path
          /\ raisedError # NoError =>
               /\ gPc' = "idle" /\ raisedError' = raisedError
               /\ raisedError.kind = "ProcessingError"
    ]_vars

\* verification rejected a broken artifact: process_geotiff was left with a
\* ProcessingError, the archive file as uploaded and no artifact
C29_Witness ==
  /\ gPc = "idle" /\ gRuns = 1
  /\ raisedError.kind = "ProcessingError"
  /\ raisedError.message = "Converted file verification failed"
  /\ storage_server_path[gTask.dataset_id] = "original"
  /\ converted_path = "absent"

(***************************************************************************)
(* Properties of the error taxonomy                                        *)
(***************************************************************************)
\* C30: a failure raised inside a handler reaches the caller of process_task
\* with its kind preserved (AuthenticationError, DatasetError or
\* ProcessingError) and carries the task id or the dataset id.
C30_KindPreserved ==
  [][\A p \in Procs :
       (pc[p] \in COG_Steps \cup THUMB_Steps /\ pc'[p] = "idle") =>
         /\ raised'[p].kind = HandlerError(pc[p], task[p]).kind
         /\ raised'[p].task_id # None \/ raised'[p].dataset_id # None
    ]_vars

(***************************************************************************)
(* Properties of the continuous mode                                       *)
(***************************************************************************)
\* C31: in continuous mode the scheduler polls again after every cycle,
\* also after a cycle that ended with an unhandled failure: a new poll
\* cycle starts again and again, forever.
C31_PollsForever ==
  \A p \in Procs : []<>(pc[p] = "bp_count")

C33_OnlyStatusOfOneRow ==
  [][LET c == statusCall' IN
     /\ {r.id : r \in dataset_rows'} = {r.id : r \in dataset_rows}
     /\ \A r \in dataset_rows :
          \/ r \in dataset_rows'
          \/ /\ r.id = c.dataset_id
             /\ [r EXCEPT !.status = c.status] \in dataset_rows'
    ]_vars

\* a dataset that was audited was set back to pending, and the other
\* dataset kept its status
C33_Witness ==
  /\ statusCall.before = "audited" /\ statusCall.status = "pending"
  /\ StatusOf(dataset_rows, statusCall.dataset_id) = "pending"
  /\ \E r \in dataset_rows : r.id # statusCall.dataset_id /\ r.status = "processed"

(***************************************************************************)
(* Properties of the derive-segmentation handler                           *)
(***************************************************************************)
\* C34: when inference succeeded and the submission of the label record
\* failed, process_deadwood_segmentation is left with a raised DatasetError:
\* it does not return.
C34_FailedSubmitRaises ==
  (segPc = "left" /\ segSubmit \in {"rejected", "unreachable", "denied"})
    => /\ segResult.how = "raised"
       /\ segResult.value.kind = "DatasetError"

(***************************************************************************)
(* Status of the dataset when its task leaves the queue                    *)
(***************************************************************************)
\* C35: whenever process_task deletes the queue row of its task, the dataset
\* of the task has status processed at that moment, also when a status write
\* inside update_status failed during the task.
C35_DeletedMeansProcessed ==
  [][\A p \in Procs :
       (/\ pc[p] = "pt_delete"
        /\ \E r \in queue : r.id = task[p].id /\ r \notin queue')
         => status[task[p].dataset_id] = "processed"
    ]_vars

(***************************************************************************)
(* Two pushes at the same time                                             *)
(***************************************************************************)
\* C36: while two pushes run at the same time, also to the same final
\* path, a final path holds nothing or a complete file: no rename moves a
\* partially uploaded file of the other push into place.
C36_ConcurrentPushesWhole ==
  [][\A r \in FinalPaths :
       remote'[r] # remote[r] => IsWhole(remote'[r])
    ]_vars

(***************************************************************************)
(* Properties of the legacy scheduler                                      *)
(***************************************************************************)
\* C37: under any interleaving of the invocations of the legacy
\* background_process, at most concurrent_tasks rows of the queue are
\* marked is_processing, and no invocation gets from get_next_task a task
\* that is already marked is_processing.
C37_LegacyCapAndNoDoublePick ==
  /\ current_running_tasks(lQueue) <= CONCURRENT_TASKS
  /\ \A i \in DOMAIN lRun : ~lRun[i].task.is_processing

(***************************************************************************)
(* Properties of the pulls of one task                                     *)
(***************************************************************************)
\* C38: within one task of type all the source raster is transferred from
\* the storage server at most once: at most one remote session is opened
\* while the task runs, and the pull of the thumbnail stage, which comes
\* after the stage of the optimized raster, finds the file in the
\* processing directory and returns without a session.
C38_AllPullsOnce ==
  (aPc # "idle" /\ aType = "all")
    => /\ sessions - aBase <= 1
       /\ aPc = "thumb_pull" => /\ pullPc = "idle"
                                /\ pullResult \in {"none", "exists"}

\* the stage of the optimized raster has transferred the file in the one
\* session of the task, and the pull of the thumbnail stage has returned
\* because the file exists
C38_Witness ==
  /\ aPc = "thumb_pull" /\ aType = "all"
  /\ sessions - aBase = 1
  /\ pullResult = "exists"
  /\ IsWhole(localFs[stage_input_path(aPc, aFile)])

(***************************************************************************)
(* Properties of the rate limiting                                         *)
(***************************************************************************)
\* C39: CONNECTED_IPS holds a host exactly while one request of that host
\* is in flight; a second request of the host that arrives meanwhile is
\* answered 429 and leaves the entry of the first in place; the entry is
\* gone once the request in flight has finished, with success or error.
C39_OneDownloadPerIp ==
  /\ \A ip \in ClientIps :
       ip \in CONNECTED_IPS <=>
         \E r \in DOMAIN dReq :
           /\ dReq[r].ip = ip /\ dReq[r].passed
           /\ dReq[r].pc \in {"call_next", "body"}
  /\ \A ip \in ClientIps :
       Cardinality({r \in DOMAIN dReq :
                     /\ dReq[r].ip = ip /\ dReq[r].passed
                     /\ dReq[r].pc \in {"call_next", "body"}}) <= 1
  /\ \A r \in DOMAIN dReq :
       (dReq[r].pc = "done" /\ ~dReq[r].passed) => dReq[r].status_code = 429

====
